---- MODULE Spec2Model ----
(***************************************************************************)
(* A state-machine model of atom-languageclient: the session manager's     *)
(* crash-restart handling (AutoLanguageClient.startServer and its          *)
(* connection "close" handler), the cancel-and-supersede token registry    *)
(* (convert.ts) and the autocomplete suggestion cache                      *)
(* (AutocompleteAdapter.getOrBuildSuggestions).                            *)
(***************************************************************************)
EXTENDS Integers, Sequences, FiniteSets, TLC

(***************************************************************************)
(* Bounds of the model.                                                    *)
(***************************************************************************)
\* Sessions spawned in one run (server ids are 1..MaxServers).
MaxServers == 3
\* The restart budget N: unexpected terminations tolerated per project root.
RestartBudget == 1

\* Cancellable requests issued in one run of the token protocol.
MaxRequests == 3
\* Completion requests issued in one run of the suggestion cache.
MaxCacheRequests == 2
\* Tokens a registry handed to cancelAndRefreshCancellationToken may hold.
MaxInitTokens == 2
\* cancelAndRefreshCancellationToken calls in one run on such a registry.
MaxRefreshCalls == 3
\* Buffer columns of completion requests.
MaxCol == 2

\* Project roots documents resolve to.
Roots == {"/proj", "/other"}
\* How a server process can end: <<code, signal>> as node reports them
\* (exactly one of the two is non-null; codes are written as strings).
ExitKinds == { <<"0", "null">>, <<"1", "null">>, <<"null", "SIGTERM">> }

VARIABLES
  \* ---- AutoLanguageClient / ServerManager -------------------------------
  isDeactivating,   \* AutoLanguageClient._isDeactivating
  managerState,     \* "none" (not activated), "listening", "stopping"
  servers,          \* id -> [projectPath, phase, connection, process]
  activeServers,    \* ServerManager's set of active sessions (ids)
  restartCounter,   \* ServerManager's restart count per project root
  errorsFor,        \* id -> number of atom.notifications.addError calls
                    \*       caused by that session's termination
  reachedLimit,     \* ids for which hasServerReachedRestartLimit said true
  \* ---- cancellation tokens (convert.ts) and AutocompleteAdapter ---------
  cancellationTokens, \* the registry: connection -> token id, 0 = no entry
  cancelled,          \* tokens with isCancellationRequested
  tokensCreated,      \* CancellationTokenSource objects created so far
  returnedToken,      \* what the last cancelAndRefresh call returned (0: none)
  inflight,           \* token id -> the completion request awaiting its response
  suggestionCache,    \* AutocompleteAdapter._suggestionCache: server -> entry
  latestIssued,       \* connection -> token of the request issued last under it
  lastCall,           \* the last getOrBuildSuggestions call and its outcome
  \* ---- LinterPushV2Adapter and IntentionsListAdapter --------------------
  editorPath,         \* editor -> path of its buffer, or "unopened"
  lastDiagnosticsParamsByEditor, \* editor -> the params last captured for it
  editorsWithSaveCallbacks,      \* editors carrying an onDidSave callback
  listsByEditor,      \* IntentionsListAdapter: editor -> EditorIntentionsList
  diagnosticMap,      \* _diagnosticMap: path -> linter messages
  lsDiagnosticMap,    \* _lsDiagnosticMap: path -> (message key -> diagnostic)
  indies,             \* _indies: the attached IndieDelegates
  indieMessages,      \* what each IndieDelegate holds: path -> messages
  immediateQueue,     \* setImmediate callbacks not yet run (their lastParams)
  pushCount,          \* publishDiagnostics notifications received so far
  saveCount,          \* save events so far
  latestPushed,       \* path -> id of the params pushed last for it
  lastCapture,        \* path -> what the last captureDiagnostics did for it
  \* ---- ApplyEditAdapter -------------------------------------------------
  buffers,            \* path -> TextBuffer: its lines (a line is a sequence
                      \*         of characters), isModified, its checkpoints
  files,              \* paths that exist on disk
  documentChanges,    \* the normalised documentChanges being applied
  saveOption,         \* options.save of the running apply
  changeState,        \* per entry: where its async callback stands
  checkpoints,        \* apply's checkpoints array
  checkpointCount,    \* checkpoints created so far
  applied,            \* "idle", "pending", "true", "false"
  errorNotifications, \* atom.notifications.addError calls of apply
  atStart,            \* buffers and files when apply was called
  \* ---- what the callers of the adapters' requests get back -------------
  documentSymbolRequests, \* tokens of documentSymbol requests in flight
  callerOutcome,      \* token -> how the promise given to the caller settled
  \* ---- AutoLanguageClient.startServer ----------------------------------
  connectionType,     \* root -> what getConnectionType() returned
  lsProcess,          \* root -> the spawned process's stdin/stdout handles
  startPc,            \* root -> where startServer(root) stands
  connectionOf,       \* root -> what the LanguageClientConnection wraps
  sessionEvents,      \* root -> the calls startServer made, in order
  loggedErrors,       \* roots for which createRpcConnection logged an error
  activeSessions,     \* roots whose Session the manager lists as active
  \* ---- the end of a Session's LinterPushV2Adapter ----------------------
  disposed,           \* dispose() was called on the adapter
  \* ---- resolving a document to a Session -------------------------------
  activeServerList,   \* getActiveServers(): projectPath and additionalPaths
  resolved,           \* the last resolution: document, project path, Session
  \* ---- AutocompleteAdapter: selecting a suggestion ---------------------
  presented,          \* suggestionMap of the cache entry: candidate ->
                      \*   the Suggestion shown, its completionItem, isResolved
  pendingResolves,    \* completionItem/resolve requests awaiting an answer
  resolvesSent,       \* candidate -> resolve requests sent for it
  selections,         \* completeSuggestion calls so far
  \* ---- AutocompleteAdapter.getTriggerCharacter -------------------------
  triggerCall,        \* the last call: its arguments and what it returned
  \* ---- AutocompleteAdapter.getSuggestions ------------------------------
  suggestCall,        \* the running or last getSuggestions call
  cacheSource,        \* the editor and the suggestions of the request that
                      \*   filled the cache entry
  \* ---- NotificationsAdapter --------------------------------------------
  notifications,      \* atom.notifications.getNotifications()
  messageRequests,    \* window/showMessageRequest promises: how they stand
  \* ---- AutoLanguageClient.onSpawnStdErrData -----------------------------
  processStdErr,      \* AutoLanguageClient.processStdErr
  stderrOutput,       \* everything the process wrote to stderr so far
  \* ---- SignatureAdapter.waitForFirst ------------------------------------
  createdPromise,     \* SignatureAdapter._createdPromise
  resolveCreatedPromise, \* SignatureAdapter._resolveCreatedPromise is set
  firstCreatedAdapter,   \* SignatureAdapter._firstCreatedAdapter
  createdAdapters,    \* SignatureAdapter instances constructed so far
  waits               \* the promises waitForFirst returned

srvVars == << isDeactivating, managerState, servers, activeServers,
              restartCounter, errorsFor, reachedLimit >>

tokVars == << cancellationTokens, cancelled, tokensCreated, returnedToken,
              inflight, suggestionCache, latestIssued, lastCall >>

diagVars == << editorPath, lastDiagnosticsParamsByEditor,
               editorsWithSaveCallbacks, listsByEditor, diagnosticMap,
               lsDiagnosticMap, indies, indieMessages, immediateQueue,
               pushCount, saveCount, latestPushed, lastCapture >>

editVars == << buffers, files, documentChanges,
               saveOption, changeState, checkpoints, checkpointCount,
               applied, errorNotifications, atStart >>

\* The adapters that share no state with the three components above.
reqVars == << documentSymbolRequests, callerOutcome >>

startVars == << connectionType, lsProcess, startPc, connectionOf,
                sessionEvents, loggedErrors, activeSessions >>

termVars == << disposed >>

resolveVars == << activeServerList, resolved >>

selectVars == << presented, pendingResolves, resolvesSent, selections >>

triggerVars == << triggerCall >>

suggestVars == << suggestCall, cacheSource >>

notifyVars == << notifications, messageRequests >>

stderrVars == << processStdErr, stderrOutput >>

waitVars == << createdPromise, resolveCreatedPromise, firstCreatedAdapter,
               createdAdapters, waits >>

laterVars == << suggestVars, notifyVars, stderrVars, waitVars >>

adapterVars == << editVars, reqVars, startVars, termVars, resolveVars,
                  selectVars, triggerVars, laterVars >>

vars == << srvVars, tokVars, diagVars, adapterVars >>

ServerIds == DOMAIN servers

\* Sessions of a root that are starting (startServer has not returned yet).
StartingFor(root) ==
  { s \in ServerIds : servers[s].projectPath = root /\ servers[s].phase = "starting" }

\* Sessions of a root the manager holds as active.
ActiveFor(root) ==
  { s \in activeServers : servers[s].projectPath = root }

\* Live sessions of a root: starting or active.
LiveFor(root) == StartingFor(root) \cup ActiveFor(root)

(***************************************************************************)
(* ServerManager (server-manager.ts is not part of the sources at hand;    *)
(* these follow the specification's contract of the Session Manager).      *)
(***************************************************************************)

\* A session record as startServer creates it: the process is spawned and
\* the connection opened, the initialize request is in flight.
NewSession(root) ==
  [ projectPath |-> root, phase |-> "starting",
    connection |-> "open", process |-> "alive" ]

\* ServerManager.startServer(projectPath): the value of `servers` once a new
\* session for the root has been created.
SM_startServer(srv, root) ==
  srv @@ ( (Cardinality(DOMAIN srv) + 1) :> NewSession(root) )

\* ServerManager.stopServer(server): the session leaves the active set.
SM_stopServer(active, s) == active \ {s}

\* ServerManager.hasServerReachedRestartLimit(server): counts this
\* termination and answers whether the budget is exceeded.
SM_countRestart(counter, root) ==
  [counter EXCEPT ![root] = @ + 1]

SM_hasReachedRestartLimit(counter, root) ==
  SM_countRestart(counter, root)[root] > RestartBudget

(***************************************************************************)
(* AutoLanguageClient                                                      *)
(***************************************************************************)

InitSrv ==
  /\ isDeactivating = FALSE
  /\ managerState = "none"
  /\ servers = << >>
  /\ activeServers = {}
  /\ restartCounter = [r \in Roots |-> 0]
  /\ errorsFor = << >>
  /\ reachedLimit = {}

\* activate(): a new ServerManager is created and starts listening.
\* _isDeactivating is not touched.
Activate ==
  /\ UNCHANGED << tokVars, diagVars, adapterVars >>
  /\ managerState = "none"
  /\ managerState' = "listening"
  /\ activeServers' = {}
  /\ restartCounter' = [r \in Roots |-> 0]
  /\ UNCHANGED << isDeactivating, servers, errorsFor, reachedLimit >>

\* deactivate(), up to its await of stopAllServers().
Deactivate ==
  /\ UNCHANGED << tokVars, diagVars, adapterVars >>
  /\ managerState = "listening"
  /\ isDeactivating' = TRUE
  /\ managerState' = "stopping"
  /\ UNCHANGED << servers, activeServers, restartCounter, errorsFor, reachedLimit >>

\* stopAllServers() completes: every session is stopped and dropped.
StopAllServers ==
  /\ UNCHANGED << tokVars, diagVars, adapterVars >>
  /\ managerState = "stopping"
  /\ \A r \in Roots : StartingFor(r) = {}
  /\ activeServers' = {}
  /\ managerState' = "none"
  /\ UNCHANGED << isDeactivating, servers, restartCounter, errorsFor, reachedLimit >>

\* A document that resolves to `root` is opened: a session is started when
\* none resolves for it (ensureSessionStarted).
OpenDocument(root) ==
  /\ UNCHANGED << tokVars, diagVars, adapterVars >>
  /\ managerState = "listening"
  /\ LiveFor(root) = {}
  /\ Cardinality(ServerIds) < MaxServers
  /\ servers' = SM_startServer(servers, root)
  /\ errorsFor' = errorsFor @@ ( (Cardinality(ServerIds) + 1) :> 0 )
  /\ UNCHANGED << isDeactivating, managerState, activeServers, restartCounter,
                  reachedLimit >>

\* startServer resumes after `await initialization`: the close handler is
\* registered, the adapters are started and the manager takes the session
\* into its active set.
InitializeResponse(s) ==
  /\ UNCHANGED << tokVars, diagVars, adapterVars >>
  /\ servers[s].phase = "starting"
  /\ servers[s].connection = "open"
  /\ servers' = [servers EXCEPT ![s].phase = "initialized"]
  /\ activeServers' = activeServers \cup {s}
  /\ UNCHANGED << isDeactivating, managerState, restartCounter, errorsFor,
                  reachedLimit >>

\* The initialize request is rejected (spawn failure, connection lost while
\* starting): startServer throws, no session comes of it.
StartFails(s) ==
  /\ UNCHANGED << tokVars, diagVars, adapterVars >>
  /\ servers[s].phase = "starting"
  /\ servers' = [servers EXCEPT ![s].phase = "failed", ![s].connection = "closed"]
  /\ UNCHANGED << isDeactivating, managerState, activeServers, restartCounter,
                  errorsFor, reachedLimit >>

\* The connection "close" handler with the restart always taken: a mutant.
OnConnectionClose_AlwaysRestart(s) ==
  LET root == servers[s].projectPath IN
  IF isDeactivating
  THEN UNCHANGED << activeServers, restartCounter, errorsFor, reachedLimit >>
       /\ servers' = [servers EXCEPT ![s].connection = "closed"]
  ELSE /\ activeServers' = SM_stopServer(activeServers, s)
       /\ restartCounter' = SM_countRestart(restartCounter, root)
       /\ servers' = SM_startServer([servers EXCEPT ![s].connection = "closed"], root)
       /\ errorsFor' = errorsFor @@ ( (Cardinality(ServerIds) + 1) :> 0 )
       /\ UNCHANGED reachedLimit

\* The connection "close" handler without the stopServer call: a mutant.
OnConnectionClose_NoStop(s) ==
  LET root == servers[s].projectPath IN
  IF isDeactivating
  THEN UNCHANGED << activeServers, restartCounter, errorsFor, reachedLimit >>
       /\ servers' = [servers EXCEPT ![s].connection = "closed"]
  ELSE /\ UNCHANGED activeServers
       /\ restartCounter' = SM_countRestart(restartCounter, root)
       /\ IF ~SM_hasReachedRestartLimit(restartCounter, root)
          THEN /\ servers' = SM_startServer([servers EXCEPT ![s].connection = "closed"], root)
               /\ errorsFor' = errorsFor @@ ( (Cardinality(ServerIds) + 1) :> 0 )
               /\ UNCHANGED reachedLimit
          ELSE /\ servers' = [servers EXCEPT ![s].connection = "closed"]
               /\ errorsFor' = [errorsFor EXCEPT ![s] = @ + 1]
               /\ reachedLimit' = reachedLimit \cup {s}

\* The connection "close" handler without the _isDeactivating test: a
\* mutant.
OnConnectionClose_IgnoreDeactivating(s) ==
  LET root == servers[s].projectPath IN
  /\ activeServers' = SM_stopServer(activeServers, s)
  /\ restartCounter' = SM_countRestart(restartCounter, root)
  /\ IF ~SM_hasReachedRestartLimit(restartCounter, root)
     THEN /\ servers' = SM_startServer([servers EXCEPT ![s].connection = "closed"], root)
          /\ errorsFor' = errorsFor @@ ( (Cardinality(ServerIds) + 1) :> 0 )
          /\ UNCHANGED reachedLimit
     ELSE /\ servers' = [servers EXCEPT ![s].connection = "closed"]
          /\ errorsFor' = [errorsFor EXCEPT ![s] = @ + 1]
          /\ reachedLimit' = reachedLimit \cup {s}

\* connection.on("close", ...) as startServer registers it.
OnConnectionClose(s) ==
  LET root == servers[s].projectPath IN
  IF isDeactivating
  THEN UNCHANGED << activeServers, restartCounter, errorsFor, reachedLimit >>
       /\ servers' = [servers EXCEPT ![s].connection = "closed"]
  ELSE /\ activeServers' = SM_stopServer(activeServers, s)
       /\ restartCounter' = SM_countRestart(restartCounter, root)
       /\ IF ~SM_hasReachedRestartLimit(restartCounter, root)
          THEN /\ servers' = SM_startServer([servers EXCEPT ![s].connection = "closed"], root)
               /\ errorsFor' = errorsFor @@ ( (Cardinality(ServerIds) + 1) :> 0 )
               /\ UNCHANGED reachedLimit
          ELSE /\ servers' = [servers EXCEPT ![s].connection = "closed"]
               /\ errorsFor' = [errorsFor EXCEPT ![s] = @ + 1]
               /\ reachedLimit' = reachedLimit \cup {s}

\* The connection of an initialized session closes.
ConnectionClose(s) ==
  /\ UNCHANGED << tokVars, diagVars, adapterVars >>
  /\ servers[s].phase = "initialized"
  /\ servers[s].connection = "open"
  /\ OnConnectionClose(s)
  /\ Cardinality(DOMAIN servers') <= MaxServers
  /\ UNCHANGED << isDeactivating, managerState >>

\* onSpawnClose(code, signal): an error notification when the process
\* closed with a non-zero code and no signal.
OnSpawnClose(s, code, signal) ==
  IF code # "0" /\ signal = "null"
  THEN errorsFor' = [errorsFor EXCEPT ![s] = @ + 1]
  ELSE UNCHANGED errorsFor

\* The server process closes with an exit code or a signal.
ProcessClose(s, kind) ==
  /\ UNCHANGED << tokVars, diagVars, adapterVars >>
  /\ servers[s].process = "alive"
  /\ servers' = [servers EXCEPT ![s].process = "closed"]
  /\ OnSpawnClose(s, kind[1], kind[2])
  /\ UNCHANGED << isDeactivating, managerState, activeServers, restartCounter,
                  reachedLimit >>

\* The policy window of a root's restart counter runs out.
PolicyWindowExpires(root) ==
  /\ UNCHANGED << tokVars, diagVars, adapterVars >>
  /\ restartCounter[root] > 0
  /\ restartCounter' = [restartCounter EXCEPT ![root] = 0]
  /\ UNCHANGED << isDeactivating, managerState, servers, activeServers,
                  errorsFor, reachedLimit >>

(***************************************************************************)
(* Session manager: properties.                                            *)
(***************************************************************************)

\* The step is the "close" handler of initialized session s running.
IsCloseOf(s) ==
  /\ servers[s].phase = "initialized"
  /\ servers[s].connection = "open"
  /\ servers'[s].connection = "closed"

\* Sessions created by the step, for the given root.
StartedFor(root) ==
  { n \in DOMAIN servers' \ DOMAIN servers : servers'[n].projectPath = root }

\* C1: at every instant the Session Manager holds at most one live
\* (starting or active) Session per project root, whatever the sequence of
\* document opens, unexpected connection closes and crash-restarts.
C1_AtMostOneLiveSession ==
  \A r \in Roots : Cardinality(LiveFor(r)) <= 1

\* C1 witness: a session's connection closed, it was restarted within the
\* budget, and the restarted session is the root's one live session.
C1_Witness ==
  \E r \in Roots : \E s \in ServerIds :
    /\ servers[s].projectPath = r
    /\ servers[s].phase = "initialized"
    /\ servers[s].connection = "closed"
    /\ restartCounter[r] >= 1
    /\ ~isDeactivating
    /\ Cardinality(LiveFor(r)) = 1

\* C3: once a root has had N = RestartBudget counted terminations, the next
\* unexpected termination does not start a new Session for that root.
C3_NoRestartBeyondBudget ==
  [][ \A s \in ServerIds :
        (IsCloseOf(s) /\ restartCounter[servers[s].projectPath] >= RestartBudget)
          => StartedFor(servers[s].projectPath) = {} ]_vars

\* C3 witness: the (N+1)-th termination of a root has been handled and the
\* root is left without a live session.
C3_Witness ==
  \E s \in reachedLimit :
    /\ restartCounter[servers[s].projectPath] = RestartBudget + 1
    /\ LiveFor(servers[s].projectPath) = {}

\* C4: a termination that exhausts the restart budget is surfaced by exactly
\* one user-visible error notification (checked once both the connection's
\* and the process's close events of the session have been handled).
C4_ExactlyOneError ==
  \A s \in reachedLimit :
    (servers[s].connection = "closed" /\ servers[s].process = "closed")
      => errorsFor[s] = 1

\* C5: every unexpected connection close of a session the manager holds
\* active, while the root's budget is not exhausted, starts a new Session
\* for the same root.
C5_RestartWithinBudget ==
  [][ \A s \in ServerIds :
        ( /\ IsCloseOf(s)
          /\ managerState = "listening"
          /\ s \in activeServers
          /\ restartCounter[servers[s].projectPath] < RestartBudget )
          => StartedFor(servers[s].projectPath) # {} ]_vars


\* C36: once deactivate() has begun, the "close" handler of a connection
\* starts no Session and adds no restart-limit error notification.
C36_NoRestartWhileDeactivating ==
  [][ \A s \in ServerIds :
        (IsCloseOf(s) /\ isDeactivating)
          => /\ DOMAIN servers' = DOMAIN servers
             /\ errorsFor' = errorsFor
             /\ reachedLimit' = reachedLimit ]_vars

\* C36 witness: deactivate() has begun and the connection of a session the
\* manager still holds has closed; no termination was counted for it.
C36_Witness ==
  \E s \in activeServers :
    /\ isDeactivating
    /\ managerState = "stopping"
    /\ servers[s].connection = "closed"
    /\ s \notin reachedLimit
    /\ errorsFor[s] = 0

\* C37: after deactivate() and a later activate(), the unexpected close of
\* the connection of an active session, with the root's budget not
\* exhausted, starts a new Session for the root.
C37_RestartAfterReactivation ==
  [][ \A s \in ServerIds :
        ( /\ isDeactivating
          /\ managerState = "listening"
          /\ IsCloseOf(s)
          /\ s \in activeServers
          /\ restartCounter[servers[s].projectPath] < RestartBudget )
          => \E n \in DOMAIN servers' \ DOMAIN servers :
               servers'[n].projectPath = servers[s].projectPath ]_vars


NextSrv ==
  \/ Activate
  \/ Deactivate
  \/ StopAllServers
  \/ \E r \in Roots : OpenDocument(r)
  \/ \E s \in ServerIds : InitializeResponse(s)
  \/ \E s \in ServerIds : StartFails(s)
  \/ \E s \in ServerIds : ConnectionClose(s)
  \/ \E s \in ServerIds : \E k \in ExitKinds : ProcessClose(s, k)
  \/ \E r \in Roots : PolicyWindowExpires(r)

(***************************************************************************)
(* Cancellation tokens (convert.ts) and the suggestion cache               *)
(* (AutocompleteAdapter).                                                  *)
(***************************************************************************)

\* Connections requests are keyed by; each belongs to one ActiveServer, which
\* keys the suggestion cache.
Connections == {"c1", "c2"}
\* Absence of a cache entry / of a call.
None == [none |-> TRUE]
\* Trigger strings as character sequences; << >> is "" (no trigger).
TriggerChars == { << >>, <<".">> }
\* What the server may answer a completion request with.
ResponseKinds == {"null", "array", "complete-list", "incomplete-list", "error"}
\* The answers that reject the request's promise: a ResponseError of the
\* server, and the RequestCancelled error that answers a cancelled request.
Rejections == {"error", "cancelled"}

Cols == 0..MaxCol
\* Cursor positions <<row, column>>: every column of line 0, and one
\* position on line 1 for cursor jumps between lines.
BufferPositions == ({0} \X Cols) \cup { <<1, 1>> }

\* Autocomplete requests with the trigger getTriggerCharacter found for
\* them: the prefix fits before the cursor, a trigger that is part of the
\* prefix ends it, a trigger that precedes the prefix fits before it.
CompletionRequests ==
  { r \in [ bufferPosition : BufferPositions, prefixLength : 0..MaxCol,
            triggerChar : TriggerChars, triggerOnly : BOOLEAN ] :
      /\ r.prefixLength <= r.bufferPosition[2]
      /\ (r.triggerChar = << >>) => ~r.triggerOnly
      /\ r.triggerOnly => r.prefixLength >= Len(r.triggerChar)
      /\ ~r.triggerOnly =>
           r.bufferPosition[2] - r.prefixLength >= Len(r.triggerChar) }

\* The two requests of a rapid succession on one line: the cursor at column
\* 1 and then at column 2 of the same word.
SuccessiveRequests ==
  { r \in CompletionRequests :
      /\ r.bufferPosition[1] = 0
      /\ r.triggerChar = << >>
      /\ r.bufferPosition[2] \in {1, 2}
      /\ r.prefixLength = r.bufferPosition[2] }

\* Point.isEqual and Point.isLessThanOrEqual.
PointIsEqual(p, q) == p[1] = q[1] /\ p[2] = q[2]
PointIsLessThanOrEqual(p, q) == p[1] < q[1] \/ (p[1] = q[1] /\ p[2] <= q[2])

\* getOrBuildSuggestions: the trigger point of a request.
TriggerPoint(r) ==
  LET triggerColumn ==
        IF r.triggerChar # << >> /\ r.triggerOnly
        THEN r.bufferPosition[2] - Len(r.triggerChar)
        ELSE r.bufferPosition[2] - r.prefixLength - Len(r.triggerChar)
  IN << r.bufferPosition[1], triggerColumn >>

\* The cache test without the isIncomplete check: a mutant.
CacheIsValid_IgnoresIncomplete(cache, r) ==
  /\ cache # None
  /\ cache.triggerChar = r.triggerChar
  /\ PointIsEqual(cache.triggerPoint, TriggerPoint(r))
  /\ PointIsLessThanOrEqual(cache.originalBufferPoint, r.bufferPosition)

\* The cache test with a strict position comparison: a mutant.
CacheIsValid_StrictlyAfter(cache, r) ==
  /\ cache # None
  /\ ~cache.isIncomplete
  /\ cache.triggerChar = r.triggerChar
  /\ PointIsEqual(cache.triggerPoint, TriggerPoint(r))
  /\ PointIsLessThanOrEqual(cache.originalBufferPoint, r.bufferPosition)
  /\ ~PointIsEqual(cache.originalBufferPoint, r.bufferPosition)

\* getOrBuildSuggestions: "Do we have complete cached suggestions that are
\* still valid for this request?"
CacheIsValid(cache, r) ==
  /\ cache # None
  /\ ~cache.isIncomplete
  /\ cache.triggerChar = r.triggerChar
  /\ PointIsEqual(cache.triggerPoint, TriggerPoint(r))
  /\ PointIsLessThanOrEqual(cache.originalBufferPoint, r.bufferPosition)

\* getOrBuildSuggestions: isComplete, from the shape of the response.
IsComplete(kind) ==
  kind = "null" \/ kind = "array" \/ ~(kind = "incomplete-list")

\* cancelAndRefresh that installs the fresh token first and then cancels the
\* key's registered token: a mutant.
CancelAndRefreshCancellationToken_InstallFirst(key) ==
  LET fresh == tokensCreated + 1 IN
  /\ cancelled' = cancelled \cup {fresh}
  /\ tokensCreated' = fresh
  /\ cancellationTokens' = [cancellationTokens EXCEPT ![key] = fresh]
  /\ returnedToken' = fresh

\* cancelAndRefreshCancellationToken(key, cancellationTokens).
CancelAndRefreshCancellationToken(key) ==
  LET old == cancellationTokens[key]
      fresh == tokensCreated + 1
  IN
  /\ cancelled' = IF old # 0 /\ old \notin cancelled
                  THEN cancelled \cup {old}
                  ELSE cancelled
  /\ tokensCreated' = fresh
  /\ cancellationTokens' = [cancellationTokens EXCEPT ![key] = fresh]
  /\ returnedToken' = fresh

\* doWithCancellationToken after `await work(token)` returned: the key's
\* entry is deleted.
DoWithCancellationToken_Resolved(key) ==
  cancellationTokens' = [cancellationTokens EXCEPT ![key] = 0]

\* doWithCancellationToken when `await work(token)` throws: the function is
\* left at once.
DoWithCancellationToken_Rejected(key) ==
  UNCHANGED cancellationTokens

InitTok ==
  /\ cancellationTokens = [c \in Connections |-> 0]
  /\ cancelled = {}
  /\ tokensCreated = 0
  /\ returnedToken = 0
  /\ inflight = << >>
  /\ suggestionCache = [c \in Connections |-> None]
  /\ latestIssued = [c \in Connections |-> 0]
  /\ lastCall = None

\* getOrBuildSuggestions(server, request, triggerChar, triggerOnly, ...) up
\* to its first await: either the cached suggestions are returned, or a
\* completion request is sent under a fresh cancellation token.
BeginGetOrBuildSuggestions(server, r) ==
  LET cache == suggestionCache[server]
      call == [ server |-> server, triggerChar |-> r.triggerChar,
                triggerPoint |-> TriggerPoint(r),
                bufferPosition |-> r.bufferPosition, cacheBefore |-> cache ]
  IN
  /\ IF CacheIsValid(cache, r)
     THEN /\ lastCall' = call @@ [ outcome |-> "cached",
                                   result |-> cache.suggestionMap,
                                   issued |-> 0 ]
          /\ UNCHANGED << cancellationTokens, cancelled, tokensCreated,
                          returnedToken, inflight, suggestionCache, latestIssued >>
     ELSE /\ CancelAndRefreshCancellationToken(server)
          /\ inflight' = inflight @@
               ( (tokensCreated + 1) :>
                   [ key |-> server,
                     triggerChar |-> r.triggerChar,
                     triggerPoint |-> TriggerPoint(r),
                     bufferPosition |-> r.bufferPosition ] )
          /\ latestIssued' = [latestIssued EXCEPT ![server] = tokensCreated + 1]
          /\ lastCall' = call @@ [ outcome |-> "requested",
                                   result |-> 0,
                                   issued |-> tokensCreated + 1 ]
          /\ UNCHANGED suggestionCache

GetOrBuildSuggestions(server, r) ==
  /\ BeginGetOrBuildSuggestions(server, r)
  /\ UNCHANGED << srvVars, diagVars, adapterVars >>

\* The response to the completion request sent under token t arrives and
\* getOrBuildSuggestions resumes: on a result the registry entry of the key
\* is deleted and the cache entry of the server replaced; on an error the
\* rejection propagates to the caller.
ResumeGetOrBuildSuggestions(t, kind) ==
  LET req == inflight[t] IN
  /\ inflight' = [ u \in DOMAIN inflight \ {t} |-> inflight[u] ]
  /\ IF kind \in Rejections
     THEN /\ DoWithCancellationToken_Rejected(req.key)
          /\ UNCHANGED suggestionCache
     ELSE /\ DoWithCancellationToken_Resolved(req.key)
          /\ suggestionCache' =
               [suggestionCache EXCEPT ![req.key] =
                  [ isIncomplete |-> ~IsComplete(kind),
                    triggerChar |-> req.triggerChar,
                    triggerPoint |-> req.triggerPoint,
                    originalBufferPoint |-> req.bufferPosition,
                    suggestionMap |-> t ]]
  /\ UNCHANGED << cancelled, tokensCreated, returnedToken, latestIssued, lastCall >>

CompletionResponse(t, kind) ==
  /\ ResumeGetOrBuildSuggestions(t, kind)
  /\ UNCHANGED << srvVars, diagVars, adapterVars >>

\* The token protocol under rapid successive requests on two connections.
NextTok ==
  \/ \E c \in Connections : \E r \in SuccessiveRequests :
       tokensCreated < MaxRequests /\ GetOrBuildSuggestions(c, r)
  \/ \E t \in DOMAIN inflight : \E k \in ResponseKinds : CompletionResponse(t, k)

\* The suggestion cache of one server under every request shape.
NextCache ==
  \/ \E r \in CompletionRequests :
       /\ CacheIsValid(suggestionCache["c1"], r) \/ tokensCreated < MaxCacheRequests
       /\ GetOrBuildSuggestions("c1", r)
  \/ \E t \in DOMAIN inflight : \E k \in ResponseKinds : CompletionResponse(t, k)

\* cancelAndRefreshCancellationToken on any registry: each key holds no
\* token or a token of its own, cancelled or not.
InitRegistry ==
  /\ cancellationTokens \in [Connections -> 0..MaxInitTokens]
  /\ \A c, d \in Connections :
       (c # d /\ cancellationTokens[c] # 0) => cancellationTokens[c] # cancellationTokens[d]
  /\ cancelled \in SUBSET (1..MaxInitTokens)
  /\ tokensCreated = MaxInitTokens
  /\ returnedToken = 0
  /\ inflight = << >>
  /\ suggestionCache = [c \in Connections |-> None]
  /\ latestIssued = [c \in Connections |-> 0]
  /\ lastCall = None

RefreshCall(key) ==
  /\ tokensCreated < MaxInitTokens + MaxRefreshCalls
  /\ CancelAndRefreshCancellationToken(key)
  /\ UNCHANGED << inflight, suggestionCache, latestIssued, lastCall >>
  /\ UNCHANGED << srvVars, diagVars, adapterVars >>

NextCancel == \E c \in Connections : RefreshCall(c)

(***************************************************************************)
(* Cancellation tokens and suggestion cache: properties.                   *)
(***************************************************************************)

\* In-flight requests of a key whose token has not been cancelled.
LiveRequests(c) ==
  { t \in DOMAIN inflight : inflight[t].key = c /\ t \notin cancelled }

\* C2: once a later request B has been registered under a key, the response
\* of an earlier request A under that key is never applied: whenever a
\* response replaces a server's cache entry, it is the response of the
\* request issued last under that key.
C2_StaleResponseNeverApplied ==
  [][ \A c \in Connections :
        suggestionCache'[c] # suggestionCache[c]
          => suggestionCache'[c].suggestionMap = latestIssued[c] ]_vars

\* C6: at every instant, for each cancellation key, at most one request
\* issued under it is in flight with a token that has not been cancelled.
C6_AtMostOneLiveRequestPerKey ==
  \A c \in Connections : Cardinality(LiveRequests(c)) <= 1

\* C7: cancelAndRefresh cancels the key's existing token (leaving an
\* already-cancelled one and every other token as they are), and returns a
\* fresh, uncancelled token that the registry maps the key to.
C7_CancelAndRefresh ==
  [][ \A c \in Connections :
        cancellationTokens'[c] # cancellationTokens[c] =>
          LET old == cancellationTokens[c]
              fresh == cancellationTokens'[c]
          IN /\ old # 0 => old \in cancelled'
             /\ (old = 0 \/ old \in cancelled) => cancelled' = cancelled
             /\ cancelled' \subseteq cancelled \cup {old}
             /\ fresh > tokensCreated
             /\ fresh \notin cancelled'
             /\ returnedToken' = fresh ]_vars

\* C7 witness: a call replaced the token an earlier call had installed: the
\* earlier token is cancelled, the returned one is registered and is not.
C7_Witness ==
  \E c \in Connections :
    /\ returnedToken > MaxInitTokens + 1
    /\ cancellationTokens[c] = returnedToken
    /\ returnedToken \notin cancelled
    /\ (returnedToken - 1) \in cancelled

\* C8: a request that resolves (with a result or an error) removes the
\* registry entry it installed and nobody else's: an in-flight request that
\* was not superseded still finds its entry, and once every request has
\* resolved the registry holds no entry.
C8_OwnEntryRemoved ==
  /\ \A t \in DOMAIN inflight :
       t \notin cancelled => cancellationTokens[inflight[t].key] = t
  /\ (DOMAIN inflight = {}) => \A c \in Connections : cancellationTokens[c] = 0

\* The claim's case of a follow-up request: the cache entry before the call
\* has the request's trigger character and trigger point, and the request's
\* position is at or after the cached request's position.
SameTriggerContext(cache, r) ==
  /\ cache.triggerChar = r.triggerChar
  /\ cache.triggerPoint = r.triggerPoint
  /\ \/ cache.originalBufferPoint[1] < r.bufferPosition[1]
     \/ /\ cache.originalBufferPoint[1] = r.bufferPosition[1]
        /\ cache.originalBufferPoint[2] <= r.bufferPosition[2]

\* C9: with a cache entry that is not flagged incomplete, a follow-up
\* request with the same trigger character and trigger point at or after
\* the cached position gets the cached candidate set, and no completion
\* request is issued.
C9_CacheReuse ==
  (lastCall # None /\ lastCall.cacheBefore # None) =>
    ( (~lastCall.cacheBefore.isIncomplete
        /\ SameTriggerContext(lastCall.cacheBefore, lastCall))
      => /\ lastCall.outcome = "cached"
         /\ lastCall.result = lastCall.cacheBefore.suggestionMap
         /\ lastCall.issued = 0 )

\* C9 witness: a follow-up request further along the line was answered from
\* the cache.
C9_Witness ==
  /\ lastCall # None
  /\ lastCall.cacheBefore # None
  /\ lastCall.outcome = "cached"
  /\ lastCall.cacheBefore.originalBufferPoint[2] < lastCall.bufferPosition[2]

\* C10: getOrBuildSuggestions never reuses the cached candidate set when the
\* entry is flagged incomplete, or the trigger character or the trigger
\* point differs, or the request's position is before the cached one: it
\* issues a fresh completion request.
C10_NoReuseOnMismatch ==
  (lastCall # None /\ lastCall.cacheBefore # None) =>
    ( (lastCall.cacheBefore.isIncomplete
        \/ ~SameTriggerContext(lastCall.cacheBefore, lastCall))
      => /\ lastCall.outcome = "requested"
         /\ lastCall.issued \notin {0, lastCall.cacheBefore.suggestionMap}
         /\ lastCall.result # lastCall.cacheBefore.suggestionMap )

\* C10 witness: the entry was flagged incomplete and everything else
\* matched; a fresh request was issued.
C10_Witness ==
  /\ lastCall # None
  /\ lastCall.cacheBefore # None
  /\ lastCall.cacheBefore.isIncomplete
  /\ SameTriggerContext(lastCall.cacheBefore, lastCall)
  /\ lastCall.outcome = "requested"

\* ==========================================================================
\* Diagnostics pipeline: LinterPushV2Adapter and the Intentions Index
\* (IntentionsListAdapter / EditorIntentionsList).
\* ==========================================================================

\* publishDiagnostics notifications a behaviour may contain.
MaxPushes == 2
\* Save events a behaviour may contain.
MaxSaves == 1

Editors == {"e1", "e2"}
IndieDelegates == {"i1", "i2"}
Uris == {"file:///proj/src/a.ts", "file:///proj/src/b.ts"}

\* Convert.uriToPath on file: URIs (the pathname of the URL).
UriToPath(uri) ==
  CASE uri = "file:///proj/src/a.ts" -> "/proj/src/a.ts"
    [] uri = "file:///proj/src/b.ts" -> "/proj/src/b.ts"
    [] OTHER -> uri

Paths == { UriToPath(u) : u \in Uris }

\* An optional field that is absent.
Undefined == "undefined"

LsRange(sl, sc, el, ec) ==
  [start |-> [line |-> sl, character |-> sc],
   end |-> [line |-> el, character |-> ec]]

\* Diagnostics as a server sends them: severity is DiagnosticSeverity
\* written as a string ("1" Error, "2" Warning, "3" Information, "4" Hint),
\* severity and code are optional.
UnusedVar ==
  [message |-> "unused var", severity |-> "2", code |-> "W1",
   range |-> LsRange(1, 0, 1, 5)]
MissingSemicolon ==
  [message |-> "missing semicolon", severity |-> "1", code |-> Undefined,
   range |-> LsRange(2, 3, 2, 4)]
UnusedVarHint ==
  [message |-> "unused var", severity |-> Undefined, code |-> "W1",
   range |-> LsRange(1, 0, 1, 5)]

\* The diagnostics arrays a publishDiagnostics notification may carry.
DiagnosticLists ==
  { << >>, << UnusedVar, MissingSemicolon >>, << UnusedVarHint >> }

\* The publishDiagnostics notifications a server may send: (uri, diagnostics).
Notifications ==
  ({"file:///proj/src/a.ts"} \X DiagnosticLists)
    \cup { << "file:///proj/src/b.ts", << UnusedVar >> >> }

\* PublishDiagnosticsParams number id: every notification is a new object.
Params(id, uri, diagnostics) ==
  [id |-> id, uri |-> uri, diagnostics |-> diagnostics]

\* The k-th Diagnostic object of a params object; obj is its identity.
DiagnosticAt(params, k) ==
  [obj |-> << params.id, k >>] @@ params.diagnostics[k]

\* Convert.lsRangeToAtomRange: a Range of two Points (row, column).
LsRangeToAtomRange(range) ==
  << << range.start.line, range.start.character >>,
     << range.end.line, range.end.character >> >>

\* Point.toString and Range.toString of the editor.
PointToString(point) ==
  "(" \o ToString(point[1]) \o ", " \o ToString(point[2]) \o ")"
RangeToString(range) ==
  "[" \o PointToString(range[1]) \o " - " \o PointToString(range[2]) \o "]"

\* A key that also carries the identity of the Diagnostic object.
GetDiagnosticKey_WithInstance(diagnostic) ==
  diagnostic.message \o ":" \o ToString(diagnostic.obj[1]) \o ":"
    \o ToString(diagnostic.obj[2])

\* getDiagnosticKey: `${message}:${severity}:${code}:${range.toString()}`
\* with severity and code defaulting to ''.
GetDiagnosticKey(diagnostic) ==
  LET range == LsRangeToAtomRange(diagnostic.range)
      severity == IF diagnostic.severity = Undefined THEN ""
                  ELSE diagnostic.severity
      code == IF diagnostic.code = Undefined THEN "" ELSE diagnostic.code
  IN diagnostic.message \o ":" \o severity \o ":" \o code \o ":"
       \o RangeToString(range)

\* lsSeverityToV2MessageSeverity and iconForLSSeverity, after the
\* `severity ?? DiagnosticSeverity.Error` of lsDiagnosticToV2Message.
LsSeverityToV2MessageSeverity(severity) ==
  CASE severity = "1" -> "error"
    [] severity = "2" -> "warning"
    [] severity \in {"3", "4"} -> "info"
IconForLSSeverity(severity) ==
  CASE severity = "1" -> "stop"
    [] severity = "2" -> "warning"
    [] severity = "3" -> "info"
    [] severity = "4" -> "light-bulb"
    [] OTHER -> Undefined

\* lsDiagnosticToV2Message. The diagnostics above carry no source, related
\* information or code description. `from` stands for the identity of the
\* Message object: the Diagnostic object it was made from.
LsDiagnosticToV2Message(path, diagnostic) ==
  LET severity == IF diagnostic.severity = Undefined THEN "1"
                  ELSE diagnostic.severity
  IN [location |-> [file |-> path,
                    position |-> LsRangeToAtomRange(diagnostic.range)],
      icon |-> IconForLSSeverity(severity),
      excerpt |-> diagnostic.message,
      severity |-> LsSeverityToV2MessageSeverity(severity),
      from |-> diagnostic.obj]

\* getMessageKey / updateMessageKey for a message without linterName,
\* reference, url and description: the parts of the key string, in order.
GetMessageKey(message) ==
  LET position == message.location.position
  IN << "$LINTER:undefined", "$LOCATION:", message.location.file,
        position[1][1], position[1][2], position[2][1], position[2][2],
        "$REFERENCE:null", "$EXCERPT:", message.excerpt,
        "$SEVERITY:", message.severity,
        IF message.icon = Undefined THEN "$ICON:null" ELSE "$ICON:",
        message.icon, "$URL:null", "$DESCRIPTION:null" >>

\* A transform that never consults the suppression predicate.
TransformOrIgnoreDiagnosticMessage_NeverIgnore(path, diag, shouldIgnore) ==
  LsDiagnosticToV2Message(path, diag)

\* transformOrIgnoreDiagnosticMessage: null when the delegate's
\* shouldIgnoreMessage says so (shouldIgnore is its answer), else the message.
\* transformMessage is taken to leave the message as it is.
TransformOrIgnoreDiagnosticMessage(path, diag, shouldIgnore) ==
  IF shouldIgnore THEN None ELSE LsDiagnosticToV2Message(path, diag)

\* The `if (code)` of transformOrIgnoreDiagnosticMessage.
HasCode(diag) == diag.code \notin {Undefined, ""}

\* EditorIntentionsList.clear that leaves the list as it is.
ClearLinterIntentions_Keep(list) == list

\* clearLinterIntentions / EditorIntentionsList.clear.
ClearLinterIntentions(list) == << >>

\* EditorIntentionsList.add through onLinterMessageAdded: the three maps are
\* keyed by fresh Range and Message objects, so every add is a new entry.
AddIntention(list, message, code, path, diag) ==
  Append(list, [range |-> message.location.position,
                bundle |-> [message |-> message, code |-> code,
                            path |-> path],
                diag |-> diag.obj])

\* IndieDelegate.setMessages that adds to what is held for the path.
SetMessages_Append(held, path, messages) ==
  IF path \in DOMAIN held
  THEN [held EXCEPT ![path] = @ \o messages]
  ELSE (path :> messages) @@ held

\* IndieDelegate.setMessages(path, messages): replaces what is held for path.
SetMessages(held, path, messages) == (path :> messages) @@ held

\* findAllTextEditorsForPath.
FindAllTextEditorsForPath(path) == { e \in Editors : editorPath[e] = path }

\* The loop of captureDiagnostics over params.diagnostics, from the k-th
\* diagnostic on, as far as the Intentions Index of one editor goes:
\* addIntentionsForLinterMessage for every retained diagnostic with a code.
RECURSIVE AddIntentionsFrom(_, _, _, _, _)
AddIntentionsFrom(list, path, params, transformed, k) ==
  IF k > Len(params.diagnostics) THEN list
  ELSE LET diag == DiagnosticAt(params, k)
           next == IF transformed[k] # None /\ HasCode(diag)
                   THEN AddIntention(list, transformed[k], diag.code, path,
                                     diag)
                   ELSE list
       IN AddIntentionsFrom(next, path, params, transformed, k + 1)

\* What captureDiagnostics writes; ignored is the set of positions of
\* params.diagnostics for which shouldIgnoreMessage answers true this time.
captureVars == << lastDiagnosticsParamsByEditor, editorsWithSaveCallbacks,
                  listsByEditor, diagnosticMap, lsDiagnosticMap,
                  indieMessages, lastCapture >>

CaptureDiagnostics(params, ignored, via) ==
  LET path == UriToPath(params.uri)
      textEditors == FindAllTextEditorsForPath(path)
      n == Len(params.diagnostics)
      transformed ==
        [k \in 1..n |->
           TransformOrIgnoreDiagnosticMessage(path, DiagnosticAt(params, k),
                                              k \in ignored)]
      retained == { k \in 1..n : transformed[k] # None }
      messages == SelectSeq(transformed, LAMBDA m : m # None)
      keyOf == [k \in retained |-> GetDiagnosticKey(DiagnosticAt(params, k))]
      messageKey == [k \in retained |-> GetMessageKey(transformed[k])]
      lastWith(key) ==
        CHOOSE k \in retained :
          /\ messageKey[k] = key
          /\ \A j \in retained : messageKey[j] = key => j <= k
      codeMap == [key \in { messageKey[k] : k \in retained } |->
                    DiagnosticAt(params, lastWith(key)).obj]
  IN /\ lastDiagnosticsParamsByEditor' =
          [e \in Editors |-> IF e \in textEditors THEN params
                             ELSE lastDiagnosticsParamsByEditor[e]]
     /\ editorsWithSaveCallbacks' = editorsWithSaveCallbacks \cup textEditors
     /\ listsByEditor' =
          [e \in Editors |->
             IF e \in textEditors
             THEN AddIntentionsFrom(ClearLinterIntentions(listsByEditor[e]),
                                    path, params, transformed, 1)
             ELSE listsByEditor[e]]
     /\ diagnosticMap' = (path :> messages) @@ diagnosticMap
     /\ lsDiagnosticMap' = (path :> codeMap) @@ lsDiagnosticMap
     /\ indieMessages' =
          [i \in IndieDelegates |->
             IF i \in indies THEN SetMessages(indieMessages[i], path, messages)
             ELSE indieMessages[i]]
     /\ lastCapture' =
          (path :> [id |-> params.id, diagnostics |-> params.diagnostics,
                    ignored |-> ignored, keys |-> keyOf, via |-> via])
            @@ lastCapture


InitDiag ==
  /\ editorPath = [e \in Editors |-> "unopened"]
  /\ lastDiagnosticsParamsByEditor = [e \in Editors |-> None]
  /\ editorsWithSaveCallbacks = {}
  /\ listsByEditor = [e \in Editors |-> << >>]
  /\ diagnosticMap = << >>
  /\ lsDiagnosticMap = << >>
  /\ indies = {}
  /\ indieMessages = [i \in IndieDelegates |-> << >>]
  /\ immediateQueue = << >>
  /\ pushCount = 0
  /\ saveCount = 0
  /\ latestPushed = << >>
  /\ lastCapture = << >>

\* A text editor is opened on a file. Editors stay open: closing one only
\* drops its WeakMap and WeakSet entries.
OpenEditor(e, path) ==
  /\ UNCHANGED << srvVars, tokVars, adapterVars >>
  /\ editorPath[e] = "unopened"
  /\ editorPath' = [editorPath EXCEPT ![e] = path]
  /\ UNCHANGED << captureVars, indies, immediateQueue, pushCount, saveCount,
                  latestPushed >>

\* connection.onPublishDiagnostics: a notification arrives and
\* captureDiagnostics runs on it.
PublishDiagnostics(uri, diagnostics) ==
  /\ UNCHANGED << srvVars, tokVars, adapterVars >>
  /\ pushCount < MaxPushes
  /\ LET params == Params(pushCount + 1, uri, diagnostics)
     IN /\ \E ignored \in SUBSET (1..Len(diagnostics)) :
             CaptureDiagnostics(params, ignored, "push")
        /\ latestPushed' = (UriToPath(uri) :> params.id) @@ latestPushed
  /\ pushCount' = pushCount + 1
  /\ UNCHANGED << editorPath, indies, immediateQueue, saveCount >>

\* recaptureDiagnosticsForEditor that runs captureDiagnostics at once.
RecaptureDiagnosticsForEditor_Synchronous(editor) ==
  LET lastParams == lastDiagnosticsParamsByEditor[editor]
  IN IF lastParams = None
     THEN UNCHANGED << captureVars, immediateQueue >>
     ELSE /\ \E ignored \in SUBSET (1..Len(lastParams.diagnostics)) :
               CaptureDiagnostics(lastParams, ignored, "save")
          /\ UNCHANGED immediateQueue

\* recaptureDiagnosticsForEditor: reads lastParams now, hands the capture to
\* setImmediate.
RecaptureDiagnosticsForEditor(editor) ==
  LET lastParams == lastDiagnosticsParamsByEditor[editor]
  IN IF lastParams = None
     THEN UNCHANGED << captureVars, immediateQueue >>
     ELSE /\ immediateQueue' = Append(immediateQueue, lastParams)
          /\ UNCHANGED captureVars

\* The editor is saved: its onDidSave callback, if _addOnSaveCallback
\* registered one, calls recaptureDiagnosticsForEditor.
Save(e) ==
  /\ UNCHANGED << srvVars, tokVars, adapterVars >>
  /\ editorPath[e] \in Paths
  /\ saveCount < MaxSaves
  /\ IF e \in editorsWithSaveCallbacks
     THEN RecaptureDiagnosticsForEditor(e)
     ELSE UNCHANGED << captureVars, immediateQueue >>
  /\ saveCount' = saveCount + 1
  /\ UNCHANGED << editorPath, indies, pushCount, latestPushed >>

\* The callback handed to setImmediate runs: captureDiagnostics(lastParams).
ImmediateTick ==
  /\ UNCHANGED << srvVars, tokVars, adapterVars >>
  /\ immediateQueue # << >>
  /\ LET lastParams == Head(immediateQueue)
     IN /\ \E ignored \in SUBSET (1..Len(lastParams.diagnostics)) :
             CaptureDiagnostics(lastParams, ignored, "tick")
        /\ immediateQueue' = Tail(immediateQueue)
  /\ UNCHANGED << editorPath, indies, pushCount, saveCount, latestPushed >>

\* The forEach of attach over _diagnosticMap.
RECURSIVE ReplayTo(_, _)
ReplayTo(held, paths) ==
  IF paths = {} THEN held
  ELSE LET path == CHOOSE p \in paths : TRUE
       IN ReplayTo(SetMessages(held, path, diagnosticMap[path]),
                   paths \ {path})

\* attach that only registers the delegate.
Attach_NoReplay(indie) ==
  /\ UNCHANGED << srvVars, tokVars, adapterVars >>
  /\ indie \notin indies
  /\ indies' = indies \cup {indie}
  /\ UNCHANGED << editorPath, lastDiagnosticsParamsByEditor,
                  editorsWithSaveCallbacks, listsByEditor, diagnosticMap,
                  lsDiagnosticMap, indieMessages, immediateQueue, pushCount,
                  saveCount, latestPushed, lastCapture >>

\* attach(indie).
Attach(indie) ==
  /\ UNCHANGED << srvVars, tokVars, adapterVars >>
  /\ indie \notin indies
  /\ indies' = indies \cup {indie}
  /\ indieMessages' =
       [indieMessages EXCEPT
          ![indie] = ReplayTo(indieMessages[indie], DOMAIN diagnosticMap)]
  /\ UNCHANGED << editorPath, lastDiagnosticsParamsByEditor,
                  editorsWithSaveCallbacks, listsByEditor, diagnosticMap,
                  lsDiagnosticMap, immediateQueue, pushCount, saveCount,
                  latestPushed, lastCapture >>

\* The delegate is destroyed: the onDidDestroy callback of attach removes it;
\* the linter drops the messages of a destroyed delegate.
IndieDestroyed(indie) ==
  /\ UNCHANGED << srvVars, tokVars, adapterVars >>
  /\ indie \in indies
  /\ indies' = indies \ {indie}
  /\ indieMessages' = [indieMessages EXCEPT ![indie] = << >>]
  /\ UNCHANGED << editorPath, lastDiagnosticsParamsByEditor,
                  editorsWithSaveCallbacks, listsByEditor, diagnosticMap,
                  lsDiagnosticMap, immediateQueue, pushCount, saveCount,
                  latestPushed, lastCapture >>

NextDiag ==
  \/ \E e \in Editors, path \in Paths : OpenEditor(e, path)
  \/ \E n \in Notifications : PublishDiagnostics(n[1], n[2])
  \/ \E e \in Editors : Save(e)
  \/ ImmediateTick
  \/ \E i \in IndieDelegates : Attach(i)
  \/ \E i \in IndieDelegates : IndieDestroyed(i)

\* ---- properties of the diagnostics pipeline -------------------------------

\* The elements of a sequence.
Elements(seq) == { seq[k] : k \in DOMAIN seq }

\* The positions of the diagnostics the last capture for path retained.
RetainedIn(path) ==
  (1..Len(lastCapture[path].diagnostics)) \ lastCapture[path].ignored

\* C11: under any interleaving of pushes and save-triggered reprocessing, the
\* batch stored for a path, and what every attached consumer holds for it, is
\* the batch pushed last for that path; an earlier batch is never published
\* again.
C11_LaterBatchSupersedes ==
  \A path \in DOMAIN diagnosticMap :
    /\ lastCapture[path].id = latestPushed[path]
    /\ \A m \in Elements(diagnosticMap[path]) : m.from[1] = latestPushed[path]
    /\ \A i \in indies :
         /\ path \in DOMAIN indieMessages[i]
         /\ \A m \in Elements(indieMessages[i][path]) :
              m.from[1] = latestPushed[path]

\* The identities of the diagnostics the last capture for path ignored.
IgnoredIn(path) ==
  { << lastCapture[path].id, k >> : k \in lastCapture[path].ignored }

\* C12: a diagnostic the suppression predicate asked to ignore is in no batch
\* a consumer holds, in no stored batch for its path and in no Intentions
\* Index entry.
C12_IgnoredNeverDownstream ==
  \A path \in DOMAIN lastCapture :
    /\ \A m \in Elements(diagnosticMap[path]) : m.from \notin IgnoredIn(path)
    /\ \A key \in DOMAIN lsDiagnosticMap[path] :
         lsDiagnosticMap[path][key] \notin IgnoredIn(path)
    /\ \A i \in indies :
         \A m \in Elements(indieMessages[i][path]) :
           m.from \notin IgnoredIn(path)
    /\ \A e \in FindAllTextEditorsForPath(path) :
         \A entry \in Elements(listsByEditor[e]) :
           entry.diag \notin IgnoredIn(path)

\* A capture ignored one diagnostic and retained another, which a consumer
\* holds and an open editor has an intention for.
C12_Witness ==
  \E path \in DOMAIN lastCapture :
    /\ lastCapture[path].ignored # {}
    /\ diagnosticMap[path] # << >>
    /\ \E i \in indies : indieMessages[i][path] # << >>
    /\ \E e \in FindAllTextEditorsForPath(path) : listsByEditor[e] # << >>

C14_EveryRetainedHasEntry ==
  \A e \in Editors :
    lastDiagnosticsParamsByEditor[e] # None =>
      \A k \in RetainedIn(editorPath[e]) :
        \E entry \in Elements(listsByEditor[e]) :
          entry.diag = << lastCapture[editorPath[e]].id, k >>

\* C15: when the batch captured for a path has the same diagnostics as the
\* batch captured for it before, every diagnostic retained both times gets
\* the same identity key, although the second submission's Diagnostic
\* objects are other instances.
C15_KeysStable ==
  [][\A path \in DOMAIN lastCapture :
       lastCapture'[path].diagnostics = lastCapture[path].diagnostics =>
         \A k \in DOMAIN lastCapture[path].keys
                    \cap DOMAIN lastCapture'[path].keys :
           lastCapture'[path].keys[k] = lastCapture[path].keys[k]]_vars

\* The same diagnostics were submitted twice for a path: the first
\* submission still waits in the setImmediate queue, the second was captured
\* and its diagnostics have keys.
C15_Witness ==
  \E path \in DOMAIN lastCapture :
    /\ lastCapture[path].keys # << >>
    /\ lastCapture[path].via = "push"
    /\ \E j \in DOMAIN immediateQueue :
         /\ UriToPath(immediateQueue[j].uri) = path
         /\ immediateQueue[j].id # lastCapture[path].id
         /\ immediateQueue[j].diagnostics = lastCapture[path].diagnostics

\* The entries an editor's Intentions Index holds for one diagnostic.
EntriesFor(e, diag) ==
  { j \in DOMAIN listsByEditor[e] : listsByEditor[e][j].diag = diag }

\* C16: after the reprocessing that a save of an open document triggers, the
\* Intentions Index of the document holds exactly one entry for each
\* retained diagnostic.
C16_OneEntryPerRetained ==
  \A e \in Editors :
    (/\ lastDiagnosticsParamsByEditor[e] # None
     /\ lastCapture[editorPath[e]].via = "tick") =>
      \A k \in RetainedIn(editorPath[e]) :
        Cardinality(EntriesFor(e, << lastCapture[editorPath[e]].id, k >>)) = 1

\* C17: for a path that has received a batch, every save of a document on
\* that path hands a reprocessing of the path's diagnostics to the next
\* scheduling tick, whether the saved view was opened before or after the
\* batch arrived.
C17_SaveLeadsToReprocessing ==
  [][\A e \in Editors :
       (Save(e) /\ editorPath[e] \in DOMAIN diagnosticMap) =>
         /\ Len(immediateQueue') = Len(immediateQueue) + 1
         /\ UriToPath(immediateQueue'[Len(immediateQueue')].uri)
              = editorPath[e]]_vars

\* C18: a save never runs captureDiagnostics inside the save handler: the
\* step of the save writes nothing that captureDiagnostics writes, it only
\* hands the reprocessing to a later scheduling tick.
C18_SaveDefersCapture ==
  [][saveCount' # saveCount =>
       /\ UNCHANGED captureVars
       /\ \/ UNCHANGED immediateQueue
          \/ \E e \in editorsWithSaveCallbacks :
               immediateQueue' =
                 Append(immediateQueue, lastDiagnosticsParamsByEditor[e])]_vars

\* A save has handed a reprocessing to setImmediate and it has not run yet.
C18_Witness ==
  /\ saveCount > 0
  /\ immediateQueue # << >>
  /\ \A path \in DOMAIN lastCapture : lastCapture[path].via = "push"

\* The step is a capture for path: a notification for it arrives, or the
\* setImmediate callback at the head of the queue runs for it.
IsCaptureOf(path) ==
  \/ /\ pushCount' # pushCount
     /\ latestPushed'[path] = pushCount'
  \/ /\ pushCount' = pushCount
     /\ Len(immediateQueue') < Len(immediateQueue)
     /\ UriToPath(Head(immediateQueue).uri) = path

\* C19: whenever a batch is captured for a path, every consumer attached at
\* that moment holds for the path exactly the messages of the diagnostics
\* that capture retained, in order: the complete list, replacing what it
\* held before.
C19_FullReplacementToEveryConsumer ==
  [][\A path \in DOMAIN lastCapture' :
       IsCaptureOf(path) =>
         \A i \in indies :
           LET held == indieMessages'[i][path]
               capture == lastCapture'[path]
               retained == (1..Len(capture.diagnostics)) \ capture.ignored
           IN /\ held = diagnosticMap'[path]
              /\ Len(held) = Cardinality(retained)
              /\ { m.from : m \in Elements(held) }
                   = { << capture.id, k >> : k \in retained }
              /\ \A j, k \in DOMAIN held :
                   j < k => held[j].from[2] < held[k].from[2]
              /\ \A m \in Elements(held) :
                   /\ m.location.file = path
                   /\ m.excerpt = capture.diagnostics[m.from[2]].message]_vars

\* Both consumers are attached and hold the batch captured last for a path,
\* from which one diagnostic was filtered out; a reprocessing has happened.
C19_Witness ==
  /\ indies = IndieDelegates
  /\ \E path \in DOMAIN lastCapture :
       /\ lastCapture[path].via = "tick"
       /\ lastCapture[path].ignored # {}
       /\ \A i \in indies : indieMessages[i][path] # << >>

\* C20: a consumer that attaches is sent, at attach time, the batch captured
\* last for every path that has one.
C20_ReplayOnAttach ==
  [][\A i \in IndieDelegates :
       (i \notin indies /\ i \in indies') =>
         \A path \in DOMAIN diagnosticMap :
           /\ path \in DOMAIN indieMessages'[i]
           /\ indieMessages'[i][path] = diagnosticMap[path]]_vars

\* Batches have been captured for both paths, one of them by a reprocessing;
\* one consumer is attached and holds the batch captured last for each path,
\* the other is not attached and holds nothing.
C20_Witness ==
  /\ DOMAIN diagnosticMap = Paths
  /\ \E path \in Paths : lastCapture[path].via = "tick"
  /\ \E i \in indies :
       /\ indies = {i}
       /\ DOMAIN indieMessages[i] = Paths
       /\ \A path \in Paths :
            /\ indieMessages[i][path] = diagnosticMap[path]
            /\ indieMessages[i][path] # << >>
\* ---------------------------------------------------------------------
\* ApplyEditAdapter: workspace/applyEdit (apply-edit-adapter.ts)
\* ---------------------------------------------------------------------

UriA == "file:///proj/src/a.ts"
UriB == "file:///proj/src/b.ts"

\* options.save of ApplyEditAdapter.apply.
SaveOptions == {"none", "unmodified", "all"}

\* The version the document sync adapter reports for an open document;
\* "null" is a TextDocumentIdentifier without a version.
SyncedVersion == "1"

\* Text edits of the protocol; newText is a sequence of characters.
ReplaceFirst == [range |-> LsRange(0, 0, 0, 1), newText |-> <<"X">>]
ReplaceSecond == [range |-> LsRange(0, 1, 0, 2), newText |-> <<"Y">>]
ReplaceBoth == [range |-> LsRange(0, 0, 0, 2), newText |-> <<"Z">>]
InsertAtStart == [range |-> LsRange(0, 0, 0, 0), newText |-> <<"n">>]
BeyondLastRow == [range |-> LsRange(5, 0, 5, 0), newText |-> <<"q">>]

\* Absent options behave as ignoreIfExists = overwrite = FALSE and
\* ignoreIfNotExists = TRUE (the code tests `!== false`).
ResourceOptions(ignoreIfExists, overwrite, ignoreIfNotExists) ==
  [ignoreIfExists |-> ignoreIfExists, overwrite |-> overwrite,
   ignoreIfNotExists |-> ignoreIfNotExists]
NoOptions == ResourceOptions(FALSE, FALSE, TRUE)

\* The entries of documentChanges.
TextDocumentEdit(uri, version, edits) ==
  [kind |-> "edit", uri |-> uri, newUri |-> uri, version |-> version,
   edits |-> edits, options |-> NoOptions]
CreateFile(uri, options) ==
  [kind |-> "create", uri |-> uri, newUri |-> uri, version |-> "null",
   edits |-> << >>, options |-> options]
RenameFile(oldUri, newUri, options) ==
  [kind |-> "rename", uri |-> oldUri, newUri |-> newUri, version |-> "null",
   edits |-> << >>, options |-> options]
DeleteFile(uri, options) ==
  [kind |-> "delete", uri |-> uri, newUri |-> uri, version |-> "null",
   edits |-> << >>, options |-> options]

IsTextDocumentEdit(edit) == edit.kind = "edit"

\* A WorkspaceEdit: documentChanges and/or the older `changes` map (here a
\* sequence of << uri, edits >> in key order).
WithDocumentChanges(entries) ==
  [hasDocumentChanges |-> TRUE, documentChanges |-> entries,
   hasChanges |-> FALSE, changes |-> << >>]
WithChanges(changes) ==
  [hasDocumentChanges |-> FALSE, documentChanges |-> << >>,
   hasChanges |-> TRUE, changes |-> changes]

WorkspaceEdits ==
  { WithDocumentChanges(<< TextDocumentEdit(UriA, "1",
                             << ReplaceFirst, ReplaceSecond >>) >>),
    WithChanges(<< << UriA, << ReplaceFirst >> >>,
                   << UriB, << InsertAtStart >> >> >>),
    WithDocumentChanges(<< TextDocumentEdit(UriA, "null", << ReplaceFirst >>),
                           TextDocumentEdit(UriA, "null", << ReplaceSecond >>) >>),
    WithDocumentChanges(<< TextDocumentEdit(UriA, "null",
                             << ReplaceBoth, ReplaceSecond >>) >>),
    WithDocumentChanges(<< TextDocumentEdit(UriA, "null", << ReplaceFirst >>),
                           TextDocumentEdit(UriB, "null", << BeyondLastRow >>) >>),
    WithDocumentChanges(<< TextDocumentEdit(UriA, "2", << ReplaceFirst >>),
                           TextDocumentEdit(UriB, "null", << InsertAtStart >>) >>),
    WithDocumentChanges(<< CreateFile(UriB, NoOptions),
                           TextDocumentEdit(UriB, "null", << InsertAtStart >>) >>),
    WithDocumentChanges(<< CreateFile(UriB, NoOptions),
                           TextDocumentEdit(UriA, "null", << BeyondLastRow >>) >>),
    WithDocumentChanges(<< RenameFile(UriA, UriB, NoOptions),
                           DeleteFile(UriA, ResourceOptions(FALSE, FALSE, FALSE)) >>),
    WithDocumentChanges(<< DeleteFile(UriB, ResourceOptions(FALSE, FALSE, FALSE)),
                           TextDocumentEdit(UriA, "null", << ReplaceFirst >>) >>),
    WithDocumentChanges(<< CreateFile(UriA, ResourceOptions(TRUE, FALSE, TRUE)),
                           RenameFile(UriB, UriA, NoOptions) >>) }

\* normalize(workspaceEdit): documentChanges, or the `changes` map rewritten
\* as unversioned TextDocumentEdits when documentChanges is absent.
Normalize(workspaceEdit) ==
  IF ~workspaceEdit.hasDocumentChanges /\ workspaceEdit.hasChanges
  THEN [k \in 1..Len(workspaceEdit.changes) |->
          TextDocumentEdit(workspaceEdit.changes[k][1], "null",
                           workspaceEdit.changes[k][2])]
  ELSE workspaceEdit.documentChanges

\* Convert.convertLsTextEdits.
ConvertLsTextEdits(textEdits) ==
  [k \in 1..Len(textEdits) |->
     [oldRange |-> LsRangeToAtomRange(textEdits[k].range),
      newText |-> textEdits[k].newText]]

\* Point.compare and Range.compare of the editor: -1, 0 or 1.
PointCompare(p, q) ==
  IF p[1] < q[1] \/ (p[1] = q[1] /\ p[2] < q[2]) THEN -1
  ELSE IF p[1] = q[1] /\ p[2] = q[2] THEN 0 ELSE 1
RangeCompare(r, other) ==
  IF PointCompare(r[1], other[1]) # 0
  THEN PointCompare(r[1], other[1])
  ELSE PointCompare(other[2], r[2])

\* edits.sort((edit1, edit2) => -edit1.oldRange.compare(edit2.oldRange)):
\* a stable sort, last range first.
RECURSIVE SortEdits(_)
SortEdits(edits) ==
  IF edits = << >> THEN << >>
  ELSE LET n == Len(edits)
           rest == SortEdits(SubSeq(edits, 1, n - 1))
           last == edits[n]
           k == Cardinality({ j \in 1..Len(rest) :
                  RangeCompare(rest[j].oldRange, last.oldRange) >= 0 })
       IN SubSeq(rest, 1, k) \o << last >> \o SubSeq(rest, k + 1, Len(rest))

\* validateEdit: FALSE where the code throws.
ValidateEdit(lines, edit, prevEdit) ==
  /\ ~( prevEdit # None
        /\ PointCompare(edit.oldRange[2], prevEdit.oldRange[1]) > 0 )
  /\ edit.oldRange[1][1] < Len(lines)

Min(a, b) == IF a < b THEN a ELSE b

\* TextBuffer.setTextInRange for a range within one row; the range is
\* clipped to the line.
SetTextInRange(lines, range, newText) ==
  LET line == lines[range[1][1] + 1]
      from == Min(range[1][2], Len(line))
      to == Min(range[2][2], Len(line))
  IN [lines EXCEPT ![range[1][1] + 1] =
        SubSeq(line, 1, from) \o newText \o SubSeq(line, to + 1, Len(line))]

\* The reduce of applyEdits over the sorted edits.
RECURSIVE ReduceEdits(_, _, _)
ReduceEdits(lines, sorted, previous) ==
  IF sorted = << >> THEN [ok |-> TRUE, lines |-> lines]
  ELSE IF ~ValidateEdit(lines, Head(sorted), previous)
       THEN [ok |-> FALSE, lines |-> lines]
       ELSE ReduceEdits(SetTextInRange(lines, Head(sorted).oldRange,
                                       Head(sorted).newText),
                        Tail(sorted), Head(sorted))

\* applyEdits on the lines of a buffer: ok and the new lines, or not ok and
\* the lines of the checkpoint (the catch block reverts to it).
ApplyEdits(lines, edits) ==
  LET result == ReduceEdits(lines, SortEdits(edits), None)
  IN IF result.ok THEN result ELSE [ok |-> FALSE, lines |-> lines]

\* TextBuffer.createCheckpoint.
CreateCheckpoint(buffer, id) ==
  [buffer EXCEPT !.checkpoints =
     Append(@, [id |-> id, lines |-> buffer.lines,
                modified |-> buffer.modified])]

\* TextBuffer.revertToCheckpoint: back to the state at the checkpoint,
\* which goes away with everything after it; nothing when the checkpoint
\* is no longer there.
RevertToCheckpoint(buffer, id) ==
  LET at == { k \in 1..Len(buffer.checkpoints) : buffer.checkpoints[k].id = id }
  IN IF at = {} THEN buffer
     ELSE LET k == CHOOSE j \in at : TRUE
          IN [lines |-> buffer.checkpoints[k].lines,
              modified |-> buffer.checkpoints[k].modified,
              checkpoints |-> SubSeq(buffer.checkpoints, 1, k - 1)]

\* checkpoints.forEach(({ buffer, checkpoint }) =>
\*   buffer.revertToCheckpoint(checkpoint)).
RECURSIVE RevertCheckpoints(_, _)
RevertCheckpoints(bufs, cps) ==
  IF cps = << >> THEN bufs
  ELSE RevertCheckpoints(
         [bufs EXCEPT ![Head(cps).buffer] =
            RevertToCheckpoint(@, Head(cps).checkpoint)],
         Tail(cps))

Settled(state) == state \in {"done", "failed"}

\* The catch handler of apply undoing the resource operations as well.
OnApplyFailed_UndoResources(bufs, cps, fs) ==
  /\ errorNotifications' = errorNotifications + 1
  /\ buffers' = RevertCheckpoints(bufs, cps)
  /\ files' = atStart.files
  /\ applied' = "false"

\* The catch handler of apply (Promise.all rejected): one error
\* notification, every checkpoint collected so far reverted, applied false.
OnApplyFailed(bufs, cps, fs) ==
  /\ errorNotifications' = errorNotifications + 1
  /\ buffers' = RevertCheckpoints(bufs, cps)
  /\ files' = fs
  /\ applied' = "false"

\* The promise of entry i moves to `state`, leaving the buffers, the
\* checkpoints array and the disk as given. The first rejection rejects
\* Promise.all and runs the catch handler; the last fulfilment resolves it.
Settle(i, state, bufs, cps, fs) ==
  LET after == [changeState EXCEPT ![i] = state] IN
  /\ changeState' = after
  /\ checkpoints' = cps
  /\ IF applied = "pending" /\ state = "failed"
     THEN OnApplyFailed(bufs, cps, fs)
     ELSE /\ buffers' = bufs
          /\ files' = fs
          /\ applied' = IF applied = "pending"
                           /\ \A k \in DOMAIN after : after[k] = "done"
                        THEN "true" ELSE applied
          /\ UNCHANGED errorNotifications

InitEdit ==
  /\ buffers = [p \in Paths |->
       [lines |-> IF p = UriToPath(UriA) THEN << <<"a", "b">> >> ELSE << << >> >>,
        modified |-> FALSE, checkpoints |-> << >>]]
  /\ files = {UriToPath(UriA)}
  /\ documentChanges = << >>
  /\ saveOption = "none"
  /\ changeState = << >>
  /\ checkpoints = << >>
  /\ checkpointCount = 0
  /\ applied = "idle"
  /\ errorNotifications = 0
  /\ atStart = None

notEditVars == << srvVars, tokVars, diagVars, reqVars, startVars, termVars,
                 resolveVars, selectVars, triggerVars, laterVars >>

\* apply up to its `await Promise.all`: every entry's callback has run to
\* its first await (workspace.open, or lstat/access of the resource).
Apply(workspaceEdit, save) ==
  /\ applied = "idle"
  /\ documentChanges' = Normalize(workspaceEdit)
  /\ saveOption' = save
  /\ changeState' = [k \in 1..Len(Normalize(workspaceEdit)) |->
       IF IsTextDocumentEdit(Normalize(workspaceEdit)[k])
       THEN "opening" ELSE "stat"]
  /\ checkpoints' = << >>
  /\ applied' = "pending"
  /\ atStart' = [buffers |-> buffers, files |-> files]
  /\ UNCHANGED << buffers, files, checkpointCount, errorNotifications >>
  /\ UNCHANGED notEditVars

\* workspace.open resolved for a TextDocumentEdit: the version test,
\* applyEdits, the checkpoint pushed, and the save decision.
EditorOpened(i) ==
  /\ i \in DOMAIN changeState
  /\ changeState[i] = "opening"
  /\ LET edit == documentChanges[i]
         path == UriToPath(edit.uri)
         wasModified == buffers[path].modified
         versionMismatch ==
           edit.version # "null" /\ edit.version # SyncedVersion
         result == ApplyEdits(buffers[path].lines, ConvertLsTextEdits(edit.edits))
         id == checkpointCount + 1
     IN IF versionMismatch \/ ~result.ok
        THEN /\ Settle(i, "failed", buffers, checkpoints, files)
             /\ UNCHANGED checkpointCount
        ELSE /\ Settle(i,
                  IF saveOption = "none"
                     \/ (saveOption = "unmodified" /\ wasModified)
                  THEN "done" ELSE "saving",
                  [buffers EXCEPT ![path] =
                     [CreateCheckpoint(@, id) EXCEPT
                        !.lines = result.lines, !.modified = TRUE]],
                  Append(checkpoints, [buffer |-> path, checkpoint |-> id]),
                  files)
             /\ checkpointCount' = id
  /\ UNCHANGED << documentChanges, saveOption, atStart >>
  /\ UNCHANGED notEditVars

\* editor.save() settled.
Saved(i, ok) ==
  /\ i \in DOMAIN changeState
  /\ changeState[i] = "saving"
  /\ LET path == UriToPath(documentChanges[i].uri)
     IN IF ok
        THEN Settle(i, "done",
                    [buffers EXCEPT ![path].modified = FALSE],
                    checkpoints, files \cup {path})
        ELSE Settle(i, "failed", buffers, checkpoints, files)
  /\ UNCHANGED << documentChanges, saveOption, checkpointCount, atStart >>
  /\ UNCHANGED notEditVars

\* handleResourceOperation after its lstat/access: "done" where the code
\* returns, "failed" where it throws, "fsop" where it goes on to the
\* file-system call.
AfterStat(edit, fs) ==
  LET exists == UriToPath(edit.newUri) \in fs IN
  CASE edit.kind = "delete" ->
         IF UriToPath(edit.uri) \notin fs
         THEN (IF edit.options.ignoreIfNotExists THEN "done" ELSE "failed")
         ELSE "fsop"
    [] edit.kind = "rename" ->
         IF exists /\ edit.options.ignoreIfExists /\ ~edit.options.overwrite
         THEN "done"
         ELSE IF exists /\ ~edit.options.ignoreIfExists /\ ~edit.options.overwrite
              THEN "failed" ELSE "fsop"
    [] OTHER ->
         IF exists /\ edit.options.ignoreIfExists /\ ~edit.options.overwrite
         THEN "done" ELSE "fsop"

StatDone(i) ==
  /\ i \in DOMAIN changeState
  /\ changeState[i] = "stat"
  /\ Settle(i, AfterStat(documentChanges[i], files), buffers, checkpoints, files)
  /\ UNCHANGED << documentChanges, saveOption, checkpointCount, atStart >>
  /\ UNCHANGED notEditVars

\* fsp.unlink / fsp.rename / fsp.writeFile on the set of existing paths;
\* ok is FALSE where the call rejects.
FsOperation(edit, fs, permitted) ==
  CASE edit.kind = "delete" ->
         IF permitted /\ UriToPath(edit.uri) \in fs
         THEN [ok |-> TRUE, files |-> fs \ {UriToPath(edit.uri)}]
         ELSE [ok |-> FALSE, files |-> fs]
    [] edit.kind = "rename" ->
         IF permitted /\ UriToPath(edit.uri) \in fs
         THEN [ok |-> TRUE,
               files |-> (fs \ {UriToPath(edit.uri)}) \cup {UriToPath(edit.newUri)}]
         ELSE [ok |-> FALSE, files |-> fs]
    [] OTHER ->
         IF permitted
         THEN [ok |-> TRUE, files |-> fs \cup {UriToPath(edit.uri)}]
         ELSE [ok |-> FALSE, files |-> fs]

FsOperationDone(i, permitted) ==
  /\ i \in DOMAIN changeState
  /\ changeState[i] = "fsop"
  /\ LET r == FsOperation(documentChanges[i], files, permitted)
     IN Settle(i, IF r.ok THEN "done" ELSE "failed", buffers, checkpoints, r.files)
  /\ UNCHANGED << documentChanges, saveOption, checkpointCount, atStart >>
  /\ UNCHANGED notEditVars

NextEdit ==
  \/ \E w \in WorkspaceEdits, save \in SaveOptions : Apply(w, save)
  \/ \E i \in DOMAIN changeState : EditorOpened(i)
  \/ \E i \in DOMAIN changeState, ok \in BOOLEAN : Saved(i, ok)
  \/ \E i \in DOMAIN changeState : StatDone(i)
  \/ \E i \in DOMAIN changeState, permitted \in BOOLEAN : FsOperationDone(i, permitted)

\* Every entry's promise has settled.
AllSettled == \A k \in DOMAIN changeState : Settled(changeState[k])

\* A resource operation of the running apply went through and changed
\* the disk.
ResourcePerformed ==
  /\ \E k \in DOMAIN changeState :
       ~IsTextDocumentEdit(documentChanges[k]) /\ changeState[k] = "done"
  /\ files # atStart.files

\* C21: when applying a workspace edit has failed (applied = false) and
\* every entry has run to its end, each buffer has the content it had when
\* the apply started.
C21_FailureRollsBackEveryTextEdit ==
  (applied = "false" /\ AllSettled) =>
    \A p \in Paths : buffers[p].lines = atStart.buffers[p].lines

\* C22: the step in which a running apply fails leaves the disk as the
\* resource operations performed so far made it; only buffers are reverted.
C22_ResourceOperationsStay ==
  [][ (applied = "pending" /\ applied' = "false") => files' = files ]_vars

\* C22 witness: the apply failed after a resource operation changed the
\* disk, and the change is still there.
C22_Witness ==
  /\ applied = "false"
  /\ AllSettled
  /\ ResourcePerformed


\* Entry k of the running apply has taken effect or failed: its callback
\* ran past its first await.
Begun(k) ==
  IF IsTextDocumentEdit(documentChanges[k])
  THEN changeState[k] # "opening"
  ELSE changeState[k] # "stat"

\* C38: the entries of documentChanges take effect in the listed order: an
\* entry has not begun as long as an earlier entry has not completed.
C38_EntriesInListedOrder ==
  \A i, j \in DOMAIN changeState :
    (i < j /\ Begun(j)) => Settled(changeState[i])
\* ---------------------------------------------------------------------
\* What a caller gets back from getSuggestions and getSymbols
\* ---------------------------------------------------------------------

\* Each adapter owns its registry of cancellation tokens, keyed by
\* connection. Here the entry of c1 is the AutocompleteAdapter's and the
\* entry of c2 the SymbolAdapter's.
CompletionServer == "c1"
SymbolServer == "c2"

\* What the server may answer a documentSymbol request with.
SymbolResponseKinds == {"null", "empty-array", "array", "error"}

\* getSuggestions as its caller sees it once the completion request is
\* answered: `await doWithCancellationToken(...)` throws on a rejection and
\* no caller up to the provider catches it.
GetSuggestionsOutcome(kind) ==
  IF kind \in Rejections
  THEN [answer |-> kind, promise |-> "rejected", value |-> kind]
  ELSE [answer |-> kind, promise |-> "fulfilled",
        value |-> IF kind = "null" THEN "empty" ELSE "suggestions"]

\* getSymbols as its caller sees it once the documentSymbol request is
\* answered.
GetSymbolsOutcome(kind) ==
  IF kind \in Rejections
  THEN [answer |-> kind, promise |-> "rejected", value |-> kind]
  ELSE [answer |-> kind, promise |-> "fulfilled",
        value |-> IF kind = "null" \/ kind = "empty-array"
                  THEN "empty" ELSE "symbols"]

InitReq ==
  /\ documentSymbolRequests = {}
  /\ callerOutcome = << >>

\* The completion request sent under token t is answered; a request is
\* answered with RequestCancelled only after its token was cancelled.
CompletionSettles(t, kind) ==
  /\ kind = "cancelled" => t \in cancelled
  /\ ResumeGetOrBuildSuggestions(t, kind)
  /\ callerOutcome' = callerOutcome @@ (t :> GetSuggestionsOutcome(kind))
  /\ UNCHANGED << srvVars, diagVars, editVars, startVars, termVars, resolveVars, selectVars, triggerVars, laterVars, documentSymbolRequests >>

\* getSymbols for a document up to its await: a documentSymbol request is
\* sent under a fresh token.
GetSymbols(server) ==
  /\ CancelAndRefreshCancellationToken(server)
  /\ documentSymbolRequests' = documentSymbolRequests \cup {tokensCreated + 1}
  /\ UNCHANGED << inflight, suggestionCache, latestIssued, lastCall >>
  /\ UNCHANGED << srvVars, diagVars, editVars, startVars, termVars, resolveVars, selectVars, triggerVars, laterVars, callerOutcome >>

\* The documentSymbol request sent under token t is answered.
DocumentSymbolResponse(t, server, kind) ==
  /\ t \in documentSymbolRequests
  /\ kind = "cancelled" => t \in cancelled
  /\ documentSymbolRequests' = documentSymbolRequests \ {t}
  /\ IF kind \in Rejections
     THEN DoWithCancellationToken_Rejected(server)
     ELSE DoWithCancellationToken_Resolved(server)
  /\ callerOutcome' = callerOutcome @@ (t :> GetSymbolsOutcome(kind))
  /\ UNCHANGED << cancelled, tokensCreated, returnedToken, inflight,
                  suggestionCache, latestIssued, lastCall >>
  /\ UNCHANGED << srvVars, diagVars, editVars, startVars, termVars, resolveVars, selectVars, triggerVars, laterVars >>

NextReq ==
  \/ \E r \in SuccessiveRequests :
       tokensCreated < MaxRequests /\ GetOrBuildSuggestions(CompletionServer, r)
  \/ \E t \in DOMAIN inflight : \E kind \in ResponseKinds \cup Rejections :
       CompletionSettles(t, kind)
  \/ tokensCreated < MaxRequests /\ GetSymbols(SymbolServer)
  \/ \E t \in documentSymbolRequests :
       \E kind \in SymbolResponseKinds \cup Rejections :
         DocumentSymbolResponse(t, SymbolServer, kind)

\* C23: a completion or symbol request that the server answered with an
\* error, or that was answered as cancelled after being superseded, gives
\* its caller a fulfilled promise with the empty result.
C23_RequestErrorsYieldNeutralResult ==
  \A t \in DOMAIN callerOutcome :
    callerOutcome[t].answer \in Rejections =>
      /\ callerOutcome[t].promise = "fulfilled"
      /\ callerOutcome[t].value = "empty"

\* ---------------------------------------------------------------------
\* AutoLanguageClient.startServer and createRpcConnection
\* ---------------------------------------------------------------------

ConnectionTypes == {"ipc", "socket", "stdio"}

\* A spawned process: whether its stdin and stdout are there (not null).
LanguageServerProcess(stdin, stdout) == [stdin |-> stdin, stdout |-> stdout]

\* Utils.assertUnreachable(_): returns its argument.
AssertUnreachable(x) == x

\* createRpcConnection(lsProcess): whether it logged an error, and what it
\* returned: a MessageConnection over a reader and a writer, or what
\* assertUnreachable gave back.
CreateRpcConnection(type, process) ==
  IF type = "stdio" /\ ~(process.stdin /\ process.stdout)
  THEN [logged |-> TRUE, value |-> AssertUnreachable("stdio")]
  ELSE [logged |-> FALSE, value |-> "MessageConnection"]

\* startServer after the initialize response with adapters started before
\* the initialized notification.
OnInitializeResponse_WireFirst ==
  << "initializeResponse", "postInitialization", "startExclusiveAdapters",
     "initialized", "onClose" >>

\* startServer after `await initialization`, in the order of its calls.
OnInitializeResponse ==
  << "initializeResponse", "postInitialization", "initialized", "onClose",
     "startExclusiveAdapters" >>

InitStart ==
  /\ connectionType = [root \in Roots |-> "none"]
  /\ lsProcess = [root \in Roots |-> None]
  /\ startPc = [root \in Roots |-> "idle"]
  /\ connectionOf = [root \in Roots |-> "none"]
  /\ sessionEvents = [root \in Roots |-> << >>]
  /\ loggedErrors = {}
  /\ activeSessions = {}

notStartVars == << srvVars, tokVars, diagVars, editVars, reqVars, termVars,
                  resolveVars, selectVars, triggerVars, laterVars >>

\* startServer(projectPath) up to `await startServerProcess`.
StartServer(root) ==
  /\ startPc[root] = "idle"
  /\ startPc' = [startPc EXCEPT ![root] = "spawning"]
  /\ sessionEvents' = [sessionEvents EXCEPT ![root] = << "startServerProcess" >>]
  /\ UNCHANGED << connectionType, lsProcess, connectionOf, loggedErrors,
                  activeSessions >>
  /\ UNCHANGED notStartVars

\* startServerProcess rejected: startServer rejects.
StartServerProcessFails(root) ==
  /\ startPc[root] = "spawning"
  /\ startPc' = [startPc EXCEPT ![root] = "failed"]
  /\ UNCHANGED << connectionType, lsProcess, connectionOf, sessionEvents,
                  loggedErrors, activeSessions >>
  /\ UNCHANGED notStartVars

\* The process is there: captureServerErrors, createRpcConnection, the
\* LanguageClientConnection constructed over what it returned,
\* preInitialization, and the initialize request sent. What the constructor
\* does with a value that is no MessageConnection is not fixed by the
\* code at hand: it throws (constructorThrows) or it returns.
ServerProcessStarted(root, type, stdin, stdout, constructorThrows) ==
  LET process == LanguageServerProcess(stdin, stdout)
      rpc == CreateRpcConnection(type, process)
  IN
  /\ startPc[root] = "spawning"
  /\ constructorThrows => rpc.value # "MessageConnection"
  /\ connectionType' = [connectionType EXCEPT ![root] = type]
  /\ lsProcess' = [lsProcess EXCEPT ![root] = process]
  /\ loggedErrors' = IF rpc.logged THEN loggedErrors \cup {root} ELSE loggedErrors
  /\ IF constructorThrows
     THEN /\ startPc' = [startPc EXCEPT ![root] = "failed"]
          /\ sessionEvents' = [sessionEvents EXCEPT ![root] =
               @ \o << "captureServerErrors", "createRpcConnection" >>]
          /\ UNCHANGED connectionOf
     ELSE /\ startPc' = [startPc EXCEPT ![root] = "initializing"]
          /\ connectionOf' = [connectionOf EXCEPT ![root] = rpc.value]
          /\ sessionEvents' = [sessionEvents EXCEPT ![root] =
               @ \o << "captureServerErrors", "createRpcConnection",
                       "LanguageClientConnection", "preInitialization",
                       "initialize" >>]
  /\ UNCHANGED activeSessions
  /\ UNCHANGED notStartVars

\* The initialize response arrives over the connection: the rest of
\* startServer runs and its promise resolves.
InitializeResolved(root) ==
  /\ startPc[root] = "initializing"
  /\ connectionOf[root] = "MessageConnection"
  /\ startPc' = [startPc EXCEPT ![root] = "started"]
  /\ sessionEvents' = [sessionEvents EXCEPT ![root] = @ \o OnInitializeResponse]
  /\ UNCHANGED << connectionType, lsProcess, connectionOf, loggedErrors,
                  activeSessions >>
  /\ UNCHANGED notStartVars

\* The initialize request is rejected: startServer rejects at its await.
InitializeRejected(root) ==
  /\ startPc[root] = "initializing"
  /\ startPc' = [startPc EXCEPT ![root] = "failed"]
  /\ sessionEvents' = [sessionEvents EXCEPT ![root] = @ \o << "initializeError" >>]
  /\ UNCHANGED << connectionType, lsProcess, connectionOf, loggedErrors,
                  activeSessions >>
  /\ UNCHANGED notStartVars

\* ServerManager: the promise of startServer resolved, the Session joins
\* the active ones.
SessionBecomesActive(root) ==
  /\ startPc[root] = "started"
  /\ startPc' = [startPc EXCEPT ![root] = "active"]
  /\ activeSessions' = activeSessions \cup {root}
  /\ UNCHANGED << connectionType, lsProcess, connectionOf, sessionEvents,
                  loggedErrors >>
  /\ UNCHANGED notStartVars

NextStart ==
  \/ \E root \in Roots : StartServer(root)
  \/ \E root \in Roots : StartServerProcessFails(root)
  \/ \E root \in Roots, type \in ConnectionTypes :
       \E stdin \in BOOLEAN, stdout \in BOOLEAN, throws \in BOOLEAN :
         ServerProcessStarted(root, type, stdin, stdout, throws)
  \/ \E root \in Roots : InitializeResolved(root)
  \/ \E root \in Roots : InitializeRejected(root)
  \/ \E root \in Roots : SessionBecomesActive(root)

\* a comes before b in seq.
Before(seq, a, b) ==
  \E i, j \in DOMAIN seq : i < j /\ seq[i] = a /\ seq[j] = b

\* The stdio transport was asked for and the process of root lacks a
\* stream.
MissingStdioHandles(root) ==
  /\ connectionType[root] = "stdio"
  /\ lsProcess[root] # None
  /\ ~(lsProcess[root].stdin /\ lsProcess[root].stdout)

\* C24: with the stdio transport and a process lacking stdin or stdout,
\* the error is logged, the start has failed and no
\* LanguageClientConnection exists for the Session.
C24_MissingHandlesFailHard ==
  \A root \in Roots :
    MissingStdioHandles(root) =>
      /\ root \in loggedErrors
      /\ startPc[root] = "failed"
      /\ connectionOf[root] = "none"

\* C27: a Session is active, or has its adapters started, only with the
\* initialize response received and then the initialized notification sent
\* before the adapters were started; a start that failed has started no
\* adapter.
C27_WiringAfterInitialization ==
  \A root \in Roots :
    /\ ( root \in activeSessions
         \/ "startExclusiveAdapters" \in Elements(sessionEvents[root]) ) =>
         /\ Before(sessionEvents[root], "initialize", "initializeResponse")
         /\ Before(sessionEvents[root], "initializeResponse", "initialized")
         /\ Before(sessionEvents[root], "initialized", "startExclusiveAdapters")
    /\ startPc[root] = "failed" =>
         "startExclusiveAdapters" \notin Elements(sessionEvents[root])

\* C27 witness: one Session is active with its adapters started, and the
\* start of the other failed at initialization.
C27_Witness ==
  \E a, b \in Roots :
    /\ a \in activeSessions
    /\ "startExclusiveAdapters" \in Elements(sessionEvents[a])
    /\ startPc[b] = "failed"
    /\ "initializeError" \in Elements(sessionEvents[b])

\* ---------------------------------------------------------------------
\* LinterPushV2Adapter.dispose: the diagnostics adapter of a Session that
\* is terminated
\* ---------------------------------------------------------------------

InitTerm == disposed = FALSE

\* detachAll(): every attached delegate is cleared and forgotten.
DetachAll ==
  /\ indieMessages' = [i \in IndieDelegates |->
       IF i \in indies THEN << >> ELSE indieMessages[i]]
  /\ indies' = {}

\* dispose(): the subscriptions (the save callbacks) are disposed and the
\* delegates detached. A callback already handed to setImmediate stays
\* where it is.
Dispose ==
  /\ ~disposed
  /\ disposed' = TRUE
  /\ DetachAll
  /\ UNCHANGED << editorPath, lastDiagnosticsParamsByEditor,
                  editorsWithSaveCallbacks, listsByEditor, diagnosticMap,
                  lsDiagnosticMap, immediateQueue, pushCount, saveCount,
                  latestPushed, lastCapture >>
  /\ UNCHANGED << srvVars, tokVars, editVars, reqVars, startVars, resolveVars,
                  selectVars, triggerVars, laterVars >>

\* The adapter until its Session is terminated, and what still runs
\* afterwards: the save callbacks are unhooked and the connection delivers
\* nothing any more, the callbacks given to setImmediate before run.
NextTerm ==
  \/ ~disposed /\ NextDiag
  \/ Dispose
  \/ disposed /\ ImmediateTick

\* C25: after dispose() no step changes what the consumers hold or what
\* the Intentions Index holds.
C25_NothingAfterTermination ==
  [][ disposed => ( /\ indieMessages' = indieMessages
                    /\ listsByEditor' = listsByEditor ) ]_vars

\* ---------------------------------------------------------------------
\* Resolving a document to a Session: determineProjectPath and getServer
\* ---------------------------------------------------------------------

\* Paths are sequences of separators and names: "/proj/src/a.ts" is
\* << "/", "proj", "/", "src", "/", "a.ts" >>.
Sep == "/"

\* atom.project.getDirectories(), in order.
ProjectDirectories == << << Sep, "proj" >>, << Sep, "other" >> >>

\* Files of editors, and files definitions are found in.
FilePaths ==
  { << Sep, "proj", Sep, "src", Sep, "a.ts" >>,
    << Sep, "other", Sep, "src", Sep, "x.ts" >>,
    << Sep, "lib", Sep, "dep", Sep, "d.ts" >> }

\* An editor's document: one with a file, or an untitled one
\* (getPath() is undefined).
Documents ==
  { [hasPath |-> TRUE, path |-> p] : p \in FilePaths }
    \cup { [hasPath |-> FALSE, path |-> << >>] }

\* String.startsWith.
StartsWith(s, prefix) ==
  Len(prefix) <= Len(s) /\ SubSeq(s, 1, Len(prefix)) = prefix

\* path.dirname of a file path.
Dirname(p) == SubSeq(p, 1, Len(p) - 2)

\* normalizePath: the path with a trailing separator.
NormalizePath(p) == IF p[Len(p)] # Sep THEN Append(p, Sep) ELSE p

\* ServerManager.getNormalizedProjectPaths().
NormalizedProjectPaths ==
  [k \in DOMAIN ProjectDirectories |-> NormalizePath(ProjectDirectories[k])]

\* Array.find: the first index whose element is one of those that pass
\* the test, 0 if none.
FindIndex(seq, passing) ==
  IF \E k \in DOMAIN seq : seq[k] \in passing
  THEN CHOOSE k \in DOMAIN seq :
         seq[k] \in passing /\ \A j \in DOMAIN seq : seq[j] \in passing => k <= j
  ELSE 0

NoProjectPath == [found |-> FALSE, path |-> << >>]

\* determineProjectPath(textEditor): the first project root the file path
\* starts with; else the root of the first active server that has the
\* file's directory among its additionalPaths; else null.
DetermineProjectPath(document, active) ==
  IF ~document.hasPath THEN NoProjectPath
  ELSE LET root == FindIndex(NormalizedProjectPaths,
                     { d \in Elements(NormalizedProjectPaths) :
                         StartsWith(document.path, d) })
           claim == FindIndex(active,
                      { sv \in Elements(active) :
                          Dirname(document.path) \in sv.additionalPaths })
       IN IF root # 0
          THEN [found |-> TRUE, path |-> NormalizedProjectPaths[root]]
          ELSE IF claim # 0
               THEN [found |-> TRUE, path |-> NormalizePath(active[claim].projectPath)]
               ELSE NoProjectPath

\* ServerManager.getServer without starting one: the active server of the
\* determined project path, as its index in getActiveServers(), 0 if none.
GetServer(document, active) ==
  LET projectPath == DetermineProjectPath(document, active)
  IN IF ~projectPath.found THEN 0
     ELSE FindIndex(active,
            { sv \in Elements(active) : sv.projectPath = projectPath.path })

\* considerAdditionalPath(server, additionalPath).
ConsiderAdditionalPath(server, additionalPath) ==
  IF ~StartsWith(additionalPath, server.projectPath)
  THEN [server EXCEPT !.additionalPaths = @ \cup {additionalPath}]
  ELSE server

InitResolve ==
  /\ activeServerList = << >>
  /\ resolved = None

notResolveVars == << srvVars, tokVars, diagVars, editVars, reqVars, startVars,
                     termVars, selectVars, triggerVars, laterVars >>

\* A server was started for a project root and is active
\* (startServer: additionalPaths is a new Set).
ServerStarted(k) ==
  /\ \A j \in DOMAIN activeServerList :
       activeServerList[j].projectPath # NormalizedProjectPaths[k]
  /\ activeServerList' = Append(activeServerList,
       [projectPath |-> NormalizedProjectPaths[k], additionalPaths |-> {}])
  /\ UNCHANGED resolved
  /\ UNCHANGED notResolveVars

\* An active server is stopped and leaves the list.
ServerStopped(k) ==
  /\ k \in DOMAIN activeServerList
  /\ activeServerList' =
       SubSeq(activeServerList, 1, k - 1)
         \o SubSeq(activeServerList, k + 1, Len(activeServerList))
  /\ UNCHANGED resolved
  /\ UNCHANGED notResolveVars

\* getDefinition(editor, point) whose query names one definition in file
\* `definition`: the directory of the definition becomes an additional
\* path of the editor's server.
GetDefinition(document, definition) ==
  LET k == GetServer(document, activeServerList) IN
  /\ k # 0
  /\ activeServerList' = [activeServerList EXCEPT
       ![k] = ConsiderAdditionalPath(@, Dirname(definition))]
  /\ UNCHANGED resolved
  /\ UNCHANGED notResolveVars

\* getServer(editor) is asked for a document.
ResolveSessionFor(document) ==
  /\ resolved' =
       [document |-> document,
        projectPath |-> DetermineProjectPath(document, activeServerList),
        session |-> GetServer(document, activeServerList)]
  /\ UNCHANGED activeServerList
  /\ UNCHANGED notResolveVars

NextResolve ==
  \/ \E k \in DOMAIN NormalizedProjectPaths : ServerStarted(k)
  \/ \E k \in DOMAIN activeServerList : ServerStopped(k)
  \/ \E document \in Documents, definition \in FilePaths :
       GetDefinition(document, definition)
  \/ \E document \in Documents : ResolveSessionFor(document)

\* The active servers whose project root the document's path starts with,
\* and those that claimed the document's directory.
SessionsWithRootOf(document, active) ==
  { k \in DOMAIN active :
      document.hasPath /\ StartsWith(document.path, active[k].projectPath) }
SessionsWithClaimOn(document, active) ==
  { k \in DOMAIN active :
      document.hasPath /\ Dirname(document.path) \in active[k].additionalPaths }

\* C26: a resolution returns a Session whose project root is a prefix of
\* the document's path; if there is no such Session, one that claimed the
\* document's directory; if there is none either, no Session.
C26_ResolveSessionFor ==
  [][ resolved' # resolved =>
        LET byRoot == SessionsWithRootOf(resolved'.document, activeServerList)
            byClaim == SessionsWithClaimOn(resolved'.document, activeServerList)
        IN IF byRoot # {} THEN resolved'.session \in byRoot
           ELSE IF byClaim # {} THEN resolved'.session \in byClaim
           ELSE resolved'.session = 0 ]_vars

\* ---------------------------------------------------------------------
\* AutocompleteAdapter.completeSuggestion: resolving a selected suggestion
\* ---------------------------------------------------------------------

MaxSelections == 3

\* CompletionItem.documentation: absent, a string, or MarkupContent.
NoDocumentation == [type |-> Undefined, kind |-> Undefined, value |-> Undefined]
StringDocumentation(value) == [type |-> "string", kind |-> Undefined, value |-> value]
MarkupContent(kind, value) == [type |-> "object", kind |-> kind, value |-> value]

\* CompletionItem.textEdit: absent, or a TextEdit.
NoTextEdit == [present |-> FALSE, range |-> LsRange(0, 0, 0, 0), newText |-> ""]
LsTextEdit(range, newText) == [present |-> TRUE, range |-> range, newText |-> newText]

\* The items the server answered the completion request with.
CompletionItems ==
  { [label |-> "log", insertText |-> Undefined, insertTextFormat |-> "PlainText",
     textEdit |-> LsTextEdit(LsRange(0, 0, 0, 2), "log"),
     detail |-> Undefined, documentation |-> NoDocumentation],
    [label |-> "length", insertText |-> "length", insertTextFormat |-> "Snippet",
     textEdit |-> NoTextEdit,
     detail |-> "number", documentation |-> StringDocumentation("size")] }

\* A suggestion is the object made for one item; the label names it here.
Candidates == { item.label : item \in CompletionItems }
ItemOf(c) == CHOOSE item \in CompletionItems : item.label = c

\* What the server may answer completionItem/resolve with for an item: the
\* item with detail and documentation filled in, possibly with another
\* insertion text and edit as well; or null; or an error.
ResolveAnswers(item) ==
  { [kind |-> "item",
     item |-> [item EXCEPT !.detail = "fn(): void",
                           !.documentation = MarkupContent("markdown", "**doc**")]],
    [kind |-> "item",
     item |-> [item EXCEPT !.documentation = MarkupContent("plaintext", "doc")]],
    [kind |-> "item",
     item |-> [item EXCEPT !.detail = "changed",
                           !.documentation = StringDocumentation("doc"),
                           !.insertText = "other",
                           !.insertTextFormat = "Snippet",
                           !.textEdit = LsTextEdit(LsRange(0, 0, 0, 3), "other")]],
    [kind |-> "null", item |-> item],
    [kind |-> "error", item |-> item] }

\* `{} as Suggestion`.
EmptySuggestion ==
  [text |-> Undefined, filterText |-> Undefined, displayText |-> Undefined,
   snippet |-> Undefined, rightLabel |-> Undefined, description |-> Undefined,
   descriptionMarkdown |-> Undefined,
   textEdit |-> [present |-> FALSE, oldRange |-> LsRangeToAtomRange(LsRange(0, 0, 0, 0)),
                 newText |-> ""]]

\* `a || b` on optional strings.
OrElse(a, b) == IF a = Undefined \/ a = "" THEN b ELSE a

\* applyDetailsToSuggestion that takes the insertion text and the edit of
\* the item as well.
ApplyDetailsToSuggestion_WithInsertion(item, suggestion) ==
  [suggestion EXCEPT
     !.rightLabel = item.detail,
     !.text = OrElse(item.insertText, item.label),
     !.textEdit = IF item.textEdit.present
                  THEN [present |-> TRUE,
                        oldRange |-> LsRangeToAtomRange(item.textEdit.range),
                        newText |-> item.textEdit.newText]
                  ELSE @]

\* applyDetailsToSuggestion(item, suggestion).
ApplyDetailsToSuggestion(item, suggestion) ==
  LET labelled == [suggestion EXCEPT !.rightLabel = item.detail]
      older == IF item.documentation.type = "string"
               THEN [labelled EXCEPT
                       !.descriptionMarkdown = item.documentation.value,
                       !.description = item.documentation.value]
               ELSE labelled
  IN IF item.documentation.type = "object"
     THEN IF item.documentation.kind = "markdown"
          THEN [older EXCEPT !.descriptionMarkdown = item.documentation.value]
          ELSE [older EXCEPT !.description = item.documentation.value]
     ELSE older

\* applyCompletionItemToSuggestion for autocomplete.provider 5.1 and later.
ApplyCompletionItemToSuggestion(item, suggestion) ==
  LET primary == [suggestion EXCEPT
                    !.text = OrElse(item.insertText, item.label),
                    !.filterText = item.label,
                    !.displayText = item.label]
      detailed == ApplyDetailsToSuggestion(item, primary)
  IN IF item.textEdit.present
     THEN [detailed EXCEPT
             !.textEdit = [present |-> TRUE,
                           oldRange |-> LsRangeToAtomRange(item.textEdit.range),
                           newText |-> item.textEdit.newText]]
     ELSE detailed

\* applySnippetToSuggestion.
ApplySnippetToSuggestion(item, suggestion) ==
  IF item.insertTextFormat = "Snippet"
  THEN [suggestion EXCEPT
          !.snippet = IF item.textEdit.present THEN item.textEdit.newText
                      ELSE OrElse(item.insertText, item.label)]
  ELSE suggestion

\* completionItemToSuggestion (no onDidConvertCompletionItem given).
CompletionItemToSuggestion(item) ==
  ApplySnippetToSuggestion(item,
    ApplyCompletionItemToSuggestion(item, EmptySuggestion))

\* resolveSuggestion (no onDidConvertCompletionItem given).
ResolveSuggestion(resolvedCompletionItem, suggestion) ==
  ApplyDetailsToSuggestion(resolvedCompletionItem, suggestion)

InitSelect ==
  /\ presented = << >>
  /\ pendingResolves = << >>
  /\ resolvesSent = [c \in Candidates |-> 0]
  /\ selections = 0

notSelectVars == << srvVars, tokVars, diagVars, editVars, reqVars, startVars,
                    termVars, resolveVars, triggerVars, laterVars >>

\* completionItemsToSuggestions: the suggestionMap of a new cache entry.
CompletionItemsToSuggestions ==
  /\ presented = << >>
  /\ presented' = [c \in Candidates |->
       [suggestion |-> CompletionItemToSuggestion(ItemOf(c)),
        completionItem |-> ItemOf(c),
        isResolved |-> FALSE]]
  /\ UNCHANGED << pendingResolves, resolvesSent, selections >>
  /\ UNCHANGED notSelectVars

\* completeSuggestion(server, suggestion, ...) up to its await: a
\* suggestion of the cache entry that is not resolved has
\* completionItem/resolve sent for it.
CompleteSuggestion(c) ==
  /\ selections < MaxSelections
  /\ selections' = selections + 1
  /\ IF c \in DOMAIN presented /\ ~presented[c].isResolved
     THEN /\ pendingResolves' = Append(pendingResolves, c)
          /\ resolvesSent' = [resolvesSent EXCEPT ![c] = @ + 1]
     ELSE UNCHANGED << pendingResolves, resolvesSent >>
  /\ UNCHANGED presented
  /\ UNCHANGED notSelectVars

\* completeSuggestion after its await: the k-th request in flight is
\* answered.
CompletionItemResolveResponse(k, answer) ==
  /\ k \in DOMAIN pendingResolves
  /\ answer \in ResolveAnswers(presented[pendingResolves[k]].completionItem)
  /\ pendingResolves' = SubSeq(pendingResolves, 1, k - 1)
                          \o SubSeq(pendingResolves, k + 1, Len(pendingResolves))
  /\ IF answer.kind = "item"
     THEN presented' = [presented EXCEPT ![pendingResolves[k]] =
            [@ EXCEPT !.suggestion = ResolveSuggestion(answer.item, @),
                      !.isResolved = TRUE]]
     ELSE UNCHANGED presented
  /\ UNCHANGED << resolvesSent, selections >>
  /\ UNCHANGED notSelectVars

NextSelect ==
  \/ CompletionItemsToSuggestions
  \/ \E c \in Candidates : CompleteSuggestion(c)
  \/ \E k \in DOMAIN pendingResolves :
       \E c \in Candidates : \E answer \in ResolveAnswers(ItemOf(c)) :
         CompletionItemResolveResponse(k, answer)

\* C28: for a candidate at most one resolve request is ever sent, and once
\* its request is answered the cache entry is flagged resolved.
C28_OneResolveRequest ==
  \A c \in DOMAIN presented :
    /\ resolvesSent[c] <= 1
    /\ ( resolvesSent[c] = 1 /\ c \notin Elements(pendingResolves) )
         => presented[c].isResolved

\* C29: a step that merges a resolve result into a presented suggestion
\* leaves every field but rightLabel (the detail), description and
\* descriptionMarkdown as it was: text, snippet and textEdit keep their
\* values.
C29_MergeKeepsInsertion ==
  [][ \A c \in DOMAIN presented \cap DOMAIN presented' :
        /\ presented'[c].suggestion.text = presented[c].suggestion.text
        /\ presented'[c].suggestion.snippet = presented[c].suggestion.snippet
        /\ presented'[c].suggestion.textEdit = presented[c].suggestion.textEdit
        /\ presented'[c].suggestion.filterText = presented[c].suggestion.filterText
        /\ presented'[c].suggestion.displayText = presented[c].suggestion.displayText
    ]_vars

\* C29 witness: a suggestion was resolved, its detail is no longer the one
\* of the item it was made from, and it has the text and the edit it was
\* made with.
C29_Witness ==
  \E c \in DOMAIN presented :
    /\ presented[c].isResolved
    /\ presented[c].suggestion.rightLabel # presented[c].completionItem.detail
    /\ presented[c].suggestion.descriptionMarkdown = "**doc**"
    /\ presented[c].suggestion.text
         = CompletionItemToSuggestion(presented[c].completionItem).text
    /\ presented[c].suggestion.textEdit
         = CompletionItemToSuggestion(presented[c].completionItem).textEdit

\* ---------------------------------------------------------------------
\* AutocompleteAdapter.getTriggerCharacter
\* ---------------------------------------------------------------------

MaxLine == 3

\* Strings are sequences of characters.
Characters == {":", ".", "a"}
EmptyString == << >>
RECURSIVE StringsUpTo(_)
StringsUpTo(n) ==
  IF n = 0 THEN { EmptyString }
  ELSE LET shorter == StringsUpTo(n - 1)
       IN shorter \cup { Append(s, ch) : s \in shorter, ch \in Characters }

\* completionProvider.triggerCharacters of a server, in the order given.
TriggerCharacterLists ==
  { << >>,
    << <<".">> >>,
    << <<".">>, <<":">> >>,
    << <<":">>, <<":", ":">> >>,
    << <<":", ":">>, <<":">> >>,
    << <<".">>, <<":", ":">> >> }

\* String.prototype.endsWith.
EndsWith(s, t) ==
  /\ Len(t) <= Len(s)
  /\ SubSeq(s, Len(s) - Len(t) + 1, Len(s)) = t

\* buffer.getTextInRange([[row, from], [row, to]]) on the cursor's row.
GetTextInRange(line, from, to) == SubSeq(line, from + 1, to)

\* A SuggestionsRequestedEvent: the row of the cursor up to the cursor and
\* the prefix, the text of that row that ends at the cursor.
SuggestionsRequestedEvent(line, prefixLength) ==
  [line |-> line,
   bufferPosition |-> [row |-> 0, column |-> Len(line)],
   prefix |-> SubSeq(line, Len(line) - prefixLength + 1, Len(line))]

\* getTriggerCharacter(request, triggerChars): the loop from index i on.
RECURSIVE GetTriggerCharacterFrom(_, _, _)
GetTriggerCharacterFrom(request, triggerChars, i) ==
  LET prefixStartColumn == request.bufferPosition.column - Len(request.prefix)
      triggerChar == triggerChars[i]
  IN IF i > Len(triggerChars) THEN << EmptyString, FALSE >>
     ELSE IF EndsWith(request.prefix, triggerChar) THEN << triggerChar, TRUE >>
     ELSE IF /\ prefixStartColumn >= Len(triggerChar)
             /\ GetTextInRange(request.line, prefixStartColumn - Len(triggerChar),
                               prefixStartColumn) = triggerChar
          THEN << triggerChar, FALSE >>
     ELSE GetTriggerCharacterFrom(request, triggerChars, i + 1)

GetTriggerCharacter(request, triggerChars) ==
  GetTriggerCharacterFrom(request, triggerChars, 1)

InitTrigger == triggerCall = None

notTriggerVars == << srvVars, tokVars, diagVars, editVars, reqVars, startVars,
                     termVars, resolveVars, selectVars, laterVars >>

\* getSuggestions: the call of getTriggerCharacter.
CallGetTriggerCharacter(line, prefixLength, triggerChars) ==
  /\ triggerCall = None
  /\ triggerCall' =
       [request |-> SuggestionsRequestedEvent(line, prefixLength),
        triggerChars |-> triggerChars,
        result |-> GetTriggerCharacter(SuggestionsRequestedEvent(line, prefixLength),
                                       triggerChars)]
  /\ UNCHANGED notTriggerVars

\* getSuggestions returns; the next request calls it anew.
GetSuggestionsReturns ==
  /\ triggerCall # None
  /\ triggerCall' = None
  /\ UNCHANGED notTriggerVars

NextTrigger ==
  \/ GetSuggestionsReturns
  \/ \E line \in StringsUpTo(MaxLine) : \E prefixLength \in 0 .. Len(line) :
    \E triggerChars \in TriggerCharacterLists :
      CallGetTriggerCharacter(line, prefixLength, triggerChars)

\* The configured trigger strings that end the prefix of a request, and
\* those that stand immediately before it.
EndingPrefix(request, triggerChars) ==
  { t \in Elements(triggerChars) : EndsWith(request.prefix, t) }
PrecedingPrefix(request, triggerChars) ==
  { t \in Elements(triggerChars) :
      EndsWith(SubSeq(request.line, 1, Len(request.line) - Len(request.prefix)), t) }
Longest(strings) == CHOOSE s \in strings : \A t \in strings : Len(t) <= Len(s)

\* C30: the trigger character computed for a request is the longest
\* configured trigger string that ends the prefix when there is one (and
\* it is reported as part of the prefix), else the longest one that
\* stands immediately before the prefix, else the empty string.
C30_LongestTriggerPrefixFirst ==
  triggerCall # None =>
    LET inside == EndingPrefix(triggerCall.request, triggerCall.triggerChars)
        before == PrecedingPrefix(triggerCall.request, triggerCall.triggerChars)
    IN IF inside # {} THEN triggerCall.result = << Longest(inside), TRUE >>
       ELSE IF before # {} THEN triggerCall.result = << Longest(before), FALSE >>
       ELSE triggerCall.result[1] = EmptyString

\* ---------------------------------------------------------------------
\* AutocompleteAdapter.getSuggestions: the minimum-length gate, the cache
\* and the narrowing of the suggestions by the prefix
\* ---------------------------------------------------------------------

\* Completion requests the calls may send to the server.
MaxSuggestRequests == 1

\* The editors of two documents of one server.
RequestEditors == {"editorA", "editorB"}

\* What was typed on row 0 up to the cursor, and how much of it is the
\* prefix of the request.
TypedTexts ==
  { [line |-> << >>, prefixLength |-> 0],
    [line |-> <<"a">>, prefixLength |-> 1],
    [line |-> <<"a", "a">>, prefixLength |-> 2],
    [line |-> <<".">>, prefixLength |-> 1],
    [line |-> <<".">>, prefixLength |-> 0],
    [line |-> <<".", "a">>, prefixLength |-> 1] }

\* completionProvider.triggerCharacters of the server.
ConfiguredTriggers == { << >>, << <<".">> >> }

\* minimumWordLength as the caller passes it (`minimumWordLength || 0`).
MinimumWordLengths == {0, 2}

\* Suggestion.filterText: a string, or absent.
FilterText(value) == [present |-> TRUE, value |-> value]
NoFilterText == [present |-> FALSE, value |-> << >>]

\* The suggestions made from a non-empty completion response; the last one
\* is without filterText, as a package's onDidConvertCompletionItem may
\* leave a suggestion.
SuggestionsOfResponse(kind) ==
  IF kind = "null" THEN << >>
  ELSE << [displayText |-> "aa", filterText |-> FilterText(<<"a", "a">>)],
          [displayText |-> "ba", filterText |-> FilterText(<<"b", "a">>)],
          [displayText |-> "b", filterText |-> FilterText(<<"b">>)],
          [displayText |-> "x", filterText |-> NoFilterText] >>

\* The fuzzy matcher's test: the characters of the query occur in the
\* candidate in their order.
RECURSIVE FuzzyMatch(_, _)
FuzzyMatch(query, candidate) ==
  IF query = << >> THEN TRUE
  ELSE IF candidate = << >> THEN FALSE
  ELSE IF Head(query) = Head(candidate)
       THEN FuzzyMatch(Tail(query), Tail(candidate))
       ELSE FuzzyMatch(query, Tail(candidate))

\* A filterer that returns every candidate: a mutant.
ObjectArrayFilter_All(candidates, query) == candidates

\* PulsarObjectArrayFilterer(candidates, "filterText").filter(query): the
\* candidates whose key the matcher matches (`c[dataKey] ?? ''`).
ObjectArrayFilter(candidates, query) ==
  LET Matches(c) ==
        FuzzyMatch(query, IF c.filterText.present THEN c.filterText.value ELSE << >>)
  IN SelectSeq(candidates, Matches)

\* shouldTrigger without the activatedManually disjunct: a mutant.
ShouldTrigger_NoManualBypass(activatedManually, prefix, triggerChar, minWordLength) ==
  triggerChar # << >> \/ minWordLength <= 0 \/ Len(prefix) >= minWordLength

\* shouldTrigger(request, triggerChar, minWordLength).
ShouldTrigger(activatedManually, prefix, triggerChar, minWordLength) ==
  \/ activatedManually
  \/ triggerChar # << >>
  \/ minWordLength <= 0
  \/ Len(prefix) >= minWordLength

\* getSuggestions after getOrBuildSuggestions returned: the replacement
\* prefix is set on every suggestion, and unless the prefix is empty or
\* the request is the trigger character alone, the suggestions that have
\* a filterText are filtered by the prefix.
FinishGetSuggestions(suggestions, call, cache) ==
  LET from == cache.triggerPoint[2] + Len(cache.triggerChar)
      replacementPrefix ==
        IF cache.triggerPoint[1] = 0
        THEN SubSeq(call.line, from + 1, Len(call.line))
        ELSE << >>
      prefixed == [k \in DOMAIN suggestions |->
                     suggestions[k] @@ [replacementPrefix |-> replacementPrefix]]
      filtered == ~( call.prefix = << >>
                     \/ (call.triggerChar # << >> /\ call.triggerOnly) )
      HasFilterText(sgs) == sgs.filterText.present
  IN IF filtered
     THEN ObjectArrayFilter(SelectSeq(prefixed, HasFilterText), call.prefix)
     ELSE prefixed

InitSuggest ==
  /\ suggestCall = None
  /\ cacheSource = None

notSuggestVars == << srvVars, diagVars, editVars, reqVars, startVars, termVars,
                     resolveVars, selectVars, triggerVars,
                     notifyVars, stderrVars, waitVars >>

\* getSuggestions(server, request, ...) up to its await: the trigger
\* character, the gate, and getOrBuildSuggestions up to its await; with a
\* valid cache the call runs to its end.
GetSuggestions(editor, typed, triggerChars, activatedManually, minimumWordLength) ==
  LET request == SuggestionsRequestedEvent(typed.line, typed.prefixLength)
      trigger == GetTriggerCharacter(request, triggerChars)
      r == [ bufferPosition |-> << 0, request.bufferPosition.column >>,
             prefixLength |-> typed.prefixLength,
             triggerChar |-> trigger[1], triggerOnly |-> trigger[2] ]
      call == [ editor |-> editor, line |-> typed.line, prefix |-> request.prefix,
                activatedManually |-> activatedManually,
                minimumWordLength |-> minimumWordLength,
                triggerChar |-> trigger[1], triggerOnly |-> trigger[2] ]
      cache == suggestionCache[CompletionServer]
  IN
  /\ IF suggestCall = None THEN TRUE ELSE suggestCall.state # "awaiting"
  /\ IF ~ShouldTrigger(activatedManually, request.prefix, trigger[1], minimumWordLength)
     THEN /\ suggestCall' = call @@ [ state |-> "returned", from |-> "gate",
                                      issued |-> 0, returned |-> << >> ]
          /\ UNCHANGED tokVars
     ELSE /\ IF CacheIsValid(cache, r) THEN TRUE
             ELSE tokensCreated < MaxSuggestRequests
          /\ BeginGetOrBuildSuggestions(CompletionServer, r)
          /\ suggestCall' =
               IF CacheIsValid(cache, r)
               THEN call @@ [ state |-> "returned", from |-> "cache", issued |-> 0,
                              returned |-> FinishGetSuggestions(
                                             cacheSource.suggestions, call, cache) ]
               ELSE call @@ [ state |-> "awaiting", from |-> "server",
                              issued |-> tokensCreated + 1, returned |-> << >> ]
  /\ UNCHANGED cacheSource
  /\ UNCHANGED notSuggestVars

\* The completion request of the running call is answered:
\* getOrBuildSuggestions resumes, and on a result getSuggestions runs to
\* its end; on an error the call rejects.
CompletionArrives(kind) ==
  /\ suggestCall # None
  /\ suggestCall.state = "awaiting"
  /\ suggestCall.issued \in DOMAIN inflight
  /\ ResumeGetOrBuildSuggestions(suggestCall.issued, kind)
  /\ IF kind \in Rejections
     THEN /\ suggestCall' = [suggestCall EXCEPT !.state = "rejected"]
          /\ UNCHANGED cacheSource
     ELSE /\ cacheSource' = [ editor |-> suggestCall.editor,
                              suggestions |-> SuggestionsOfResponse(kind) ]
          /\ suggestCall' =
               [suggestCall EXCEPT
                  !.state = "returned",
                  !.returned = FinishGetSuggestions(
                                 SuggestionsOfResponse(kind), suggestCall,
                                 suggestionCache'[CompletionServer])]
  /\ UNCHANGED notSuggestVars

NextSuggest ==
  \/ \E editor \in RequestEditors, typed \in TypedTexts,
        triggerChars \in ConfiguredTriggers, activatedManually \in BOOLEAN,
        minimumWordLength \in MinimumWordLengths :
       GetSuggestions(editor, typed, triggerChars, activatedManually,
                      minimumWordLength)
  \/ \E kind \in ResponseKinds : CompletionArrives(kind)

\* The call's prefix is shorter than the minimum word length, and the
\* request is neither activated manually nor has a trigger character.
BelowMinimumLength(call) ==
  /\ Len(call.prefix) < call.minimumWordLength
  /\ ~call.activatedManually
  /\ call.triggerChar = << >>

\* C31: a getSuggestions call whose prefix is shorter than the minimum
\* word length returns no suggestions and sends no completion request,
\* unless it was activated manually or has a trigger character; a call
\* that was activated manually or has a trigger character is never stopped
\* by the gate.
C31_MinimumLengthGate ==
  [][ (suggestCall' # None /\ suggestCall' # suggestCall) =>
        /\ BelowMinimumLength(suggestCall') =>
             /\ suggestCall'.state = "returned"
             /\ suggestCall'.returned = << >>
             /\ inflight' = inflight
             /\ tokensCreated' = tokensCreated
        /\ (suggestCall'.activatedManually \/ suggestCall'.triggerChar # << >>)
             => suggestCall'.from # "gate" ]_vars

\* C31 witness: a call with a prefix of one character was stopped by a
\* minimum word length of two; no request has been sent.
C31_Witness ==
  /\ suggestCall # None
  /\ suggestCall.from = "gate"
  /\ Len(suggestCall.prefix) = 1
  /\ tokensCreated = 0

\* The call is the trigger character alone.
BareTrigger(call) == call.triggerChar # << >> /\ call.triggerOnly

\* Every returned suggestion has a filterText that the prefix matches.
ReturnedMatchPrefix ==
  \A k \in DOMAIN suggestCall.returned :
    /\ suggestCall.returned[k].filterText.present
    /\ FuzzyMatch(suggestCall.prefix, suggestCall.returned[k].filterText.value)

C35_CacheOfSameDocument ==
  ( suggestCall # None /\ suggestCall.from = "cache"
    /\ suggestCall.returned # << >> )
    => cacheSource.editor = suggestCall.editor

\* ---------------------------------------------------------------------
\* NotificationsAdapter: window/showMessage and window/showMessageRequest
\* ---------------------------------------------------------------------

MaxShowMessages == 2

\* MessageType of the protocol, by the names of its members.
MessageTypes == {"Error", "Warning", "Info", "Log"}
\* params.message.
MessageTexts == {"build failed", "indexing"}
\* params.actions of a showMessageRequest (absent for a showMessage).
NoActions == << >>
MessageActions == << "Retry", "Ignore" >>
\* `${name} ${projectPath}` of the server the adapter is attached for.
NotificationDetail == << "Server", "/proj" >>

\* messageTypeToString(messageType).
MessageTypeToString(messageType) ==
  CASE messageType = "Error" -> "error"
    [] messageType = "Warning" -> "warning"
    [] OTHER -> "info"

\* isDuplicate that takes the dismissed notifications for the displayed
\* ones: a mutant.
IsDuplicate_OfDismissed(note, messageType, message, detail) ==
  /\ note.dismissed
  /\ note.type = MessageTypeToString(messageType)
  /\ note.message = message
  /\ note.detail = detail

\* addNotificationForMessage: isDuplicate(note).
IsDuplicate(note, messageType, message, detail) ==
  /\ ~note.dismissed
  /\ note.type = MessageTypeToString(messageType)
  /\ note.message = message
  /\ note.detail = detail

\* addNotificationForMessage(messageType, message, options): the
\* notifications afterwards and the index of the notification returned,
\* 0 for null.
AddNotificationForMessage(notes, messageType, message, detail, request) ==
  IF \/ \E k \in DOMAIN notes : IsDuplicate(notes[k], messageType, message, detail)
     \/ messageType = "Log"
  THEN [notifications |-> notes, notification |-> 0]
  ELSE [notifications |->
          Append(notes, [type |-> MessageTypeToString(messageType),
                         message |-> message, detail |-> detail,
                         dismissed |-> FALSE, request |-> request]),
        notification |-> Len(notes) + 1]

InitNotify ==
  /\ notifications = << >>
  /\ messageRequests = << >>

notNotifyVars == << srvVars, tokVars, diagVars, editVars, reqVars, startVars,
                    termVars, resolveVars, selectVars, triggerVars,
                    suggestVars, stderrVars, waitVars >>

\* Show-message notifications and requests handled so far.
ShowMessagesHandled ==
  Len(messageRequests)
    + Cardinality({ k \in DOMAIN notifications : notifications[k].request = 0 })

\* onShowMessage(params, name, projectPath, delegate); shouldProceed is
\* what the delegate answers (TRUE without a delegate).
OnShowMessage(messageType, message, shouldProceed) ==
  /\ ShowMessagesHandled < MaxShowMessages
  /\ notifications' =
       IF ~shouldProceed THEN notifications
       ELSE AddNotificationForMessage(notifications, messageType, message,
                                      NotificationDetail, 0).notifications
  /\ UNCHANGED messageRequests
  /\ UNCHANGED notNotifyVars

\* onShowMessageRequest(params, name, projectPath, delegate): the promise
\* is created; when the delegate lets the request pass the notification is
\* added with its buttons and, if one was added, the dismiss callback is
\* registered.
OnShowMessageRequest(messageType, message, shouldProceed) ==
  LET id == Len(messageRequests) + 1
      added == AddNotificationForMessage(notifications, messageType, message,
                                         NotificationDetail, id)
  IN
  /\ ShowMessagesHandled < MaxShowMessages
  /\ IF ~shouldProceed
     THEN /\ messageRequests' = Append(messageRequests,
               [type |-> messageType, message |-> message, vetoed |-> TRUE,
                notification |-> 0, answer |-> "pending"])
          /\ UNCHANGED notifications
     ELSE /\ messageRequests' = Append(messageRequests,
               [type |-> messageType, message |-> message, vetoed |-> FALSE,
                notification |-> added.notification, answer |-> "pending"])
          /\ notifications' = added.notifications
  /\ UNCHANGED notNotifyVars

\* resolve(value) of the promise of request id: the first call settles it.
Resolve(requests, id, value) ==
  IF id = 0 \/ requests[id].answer # "pending" THEN requests
  ELSE [requests EXCEPT ![id].answer = value]

\* The user dismisses notification n: the onDidDismiss callback resolves
\* the request's promise with null.
Dismiss(n) ==
  /\ ~notifications[n].dismissed
  /\ notifications' = [notifications EXCEPT ![n].dismissed = TRUE]
  /\ messageRequests' = Resolve(messageRequests, notifications[n].request, "null")
  /\ UNCHANGED notNotifyVars

\* The user clicks a button of notification n: onDidClick resolves the
\* promise with the action and dismisses the notification, whose
\* onDidDismiss callback then runs.
ClickButton(n, action) ==
  /\ ~notifications[n].dismissed
  /\ notifications[n].request # 0
  /\ notifications' = [notifications EXCEPT ![n].dismissed = TRUE]
  /\ messageRequests' =
       Resolve(Resolve(messageRequests, notifications[n].request, action),
               notifications[n].request, "null")
  /\ UNCHANGED notNotifyVars

NextNotify ==
  \/ \E messageType \in MessageTypes, message \in MessageTexts,
        shouldProceed \in BOOLEAN :
       \/ OnShowMessage(messageType, message, shouldProceed)
       \/ OnShowMessageRequest(messageType, message, shouldProceed)
  \/ \E n \in DOMAIN notifications : Dismiss(n)
  \/ \E n \in DOMAIN notifications : \E action \in Elements(MessageActions) :
       ClickButton(n, action)

\* C33: no two notifications that are not dismissed have the same type,
\* the same message and the same detail.
C33_NoConcurrentDuplicates ==
  \A i, j \in DOMAIN notifications :
    ( /\ i # j
      /\ ~notifications[i].dismissed /\ ~notifications[j].dismissed
      /\ notifications[i].type = notifications[j].type
      /\ notifications[i].message = notifications[j].message )
      => notifications[i].detail # notifications[j].detail

\* C33 witness: a show-message request the delegate let pass, not of type
\* Log, got no notification while a notification of its type and message
\* is displayed.
C33_Witness ==
  \E r \in DOMAIN messageRequests : \E k \in DOMAIN notifications :
    /\ ~messageRequests[r].vetoed
    /\ messageRequests[r].type # "Log"
    /\ messageRequests[r].notification = 0
    /\ ~notifications[k].dismissed
    /\ notifications[k].type = MessageTypeToString(messageRequests[r].type)
    /\ notifications[k].message = messageRequests[r].message
    /\ notifications[k].detail = NotificationDetail

\* C39: a show-message request that got no notification (vetoed by the
\* delegate, a duplicate, or of type Log) is answered with null, and a
\* request whose notification is dismissed is answered.
C39_EveryRequestAnswered ==
  \A r \in DOMAIN messageRequests :
    /\ messageRequests[r].notification = 0 => messageRequests[r].answer = "null"
    /\ ( messageRequests[r].notification # 0
         /\ notifications[messageRequests[r].notification].dismissed )
         => messageRequests[r].answer # "pending"

\* ---------------------------------------------------------------------
\* AutoLanguageClient.onSpawnStdErrData: the retained tail of stderr
\* ---------------------------------------------------------------------

MaxChunks == 3

\* `.slice(-5)`.
KeptLines == 5

Newline == "\n"

\* chunk.toString() of the data events of the process's stderr.
StderrChunks ==
  { <<"x">>, <<"y", Newline>>, <<Newline>>,
    <<"x", Newline, "y", Newline>>,
    <<"x", Newline, "y", Newline, "x", Newline>> }

\* String.prototype.split("\n"): the pieces between the newlines; a text
\* that ends in a newline has an empty last piece.
RECURSIVE SplitAt(_, _, _)
SplitAt(text, pieces, piece) ==
  IF text = << >> THEN Append(pieces, piece)
  ELSE IF Head(text) = Newline
       THEN SplitAt(Tail(text), Append(pieces, piece), << >>)
       ELSE SplitAt(Tail(text), pieces, Append(piece, Head(text)))

Split(text) == SplitAt(text, << >>, << >>)

\* Array.prototype.slice(-n).
SliceLast(seq, n) ==
  IF Len(seq) <= n THEN seq ELSE SubSeq(seq, Len(seq) - n + 1, Len(seq))

\* Array.prototype.join("\n").
RECURSIVE Join(_)
Join(pieces) ==
  IF pieces = << >> THEN << >>
  ELSE IF Len(pieces) = 1 THEN pieces[1]
  ELSE pieces[1] \o << Newline >> \o Join(Tail(pieces))

\* All the text of the chunks received, in order.
RECURSIVE Concat(_)
Concat(chunks) ==
  IF chunks = << >> THEN << >> ELSE Head(chunks) \o Concat(Tail(chunks))

InitStderr ==
  /\ processStdErr = << >>
  /\ stderrOutput = << >>

notStderrVars == << srvVars, tokVars, diagVars, editVars, reqVars, startVars,
                    termVars, resolveVars, selectVars, triggerVars,
                    suggestVars, notifyVars, waitVars >>

\* onSpawnStdErrData(chunk, projectPath): the chunk is logged line by line
\* (handleServerStderr) and appended to processStdErr, of which the last
\* five pieces are kept.
OnSpawnStdErrData(chunk) ==
  /\ processStdErr' = Join(SliceLast(Split(processStdErr \o chunk), KeptLines))
  /\ stderrOutput' = Append(stderrOutput, chunk)
  /\ UNCHANGED notStderrVars

NextStderr ==
  \E chunk \in StderrChunks :
    Len(stderrOutput) < MaxChunks /\ OnSpawnStdErrData(chunk)

\* The lines of a text: its pieces, without the empty piece that follows
\* a final newline.
Lines(text) ==
  LET pieces == Split(text)
  IN IF pieces[Len(pieces)] = << >>
     THEN SubSeq(pieces, 1, Len(pieces) - 1)
     ELSE pieces

\* C34: the lines of the retained buffer are the last five lines of all
\* the stderr output received so far (all of them when there are fewer).
C34_LastFiveLines ==
  Lines(processStdErr) = SliceLast(Lines(Concat(stderrOutput)), KeptLines)

\* ---------------------------------------------------------------------
\* SignatureAdapter.didCreate / SignatureAdapter.waitForFirst
\* ---------------------------------------------------------------------

MaxAdapters == 2
MaxWaits == 3

\* The static fields: no promise, no resolver, no first adapter (null is 0;
\* the adapters are numbered from 1 in the order of their construction).
InitWait ==
  /\ createdPromise = [state |-> "null", value |-> 0]
  /\ resolveCreatedPromise = FALSE
  /\ firstCreatedAdapter = 0
  /\ createdAdapters = 0
  /\ waits = << >>

notWaitVars == << srvVars, tokVars, diagVars, editVars, reqVars, startVars,
                  termVars, resolveVars, selectVars, triggerVars,
                  suggestVars, notifyVars, stderrVars >>

\* Promise.race([_createdPromise, timeout(ms)]) follows _createdPromise
\* as soon as that is resolved.
Race(wait, promise) ==
  IF wait.state = "pending" /\ promise.state = "resolved"
  THEN [wait EXCEPT !.state = "resolved", !.value = promise.value]
  ELSE wait

\* new SignatureAdapter(server): the constructor ends with
\* didCreate(this), which calls _resolveCreatedPromise when there is one;
\* resolving a resolved promise changes nothing.
ConstructSignatureAdapter ==
  /\ createdAdapters < MaxAdapters
  /\ createdAdapters' = createdAdapters + 1
  /\ createdPromise' =
       IF resolveCreatedPromise /\ createdPromise.state = "pending"
       THEN [state |-> "resolved", value |-> createdAdapters + 1]
       ELSE createdPromise
  /\ waits' = [w \in DOMAIN waits |-> Race(waits[w], createdPromise')]
  /\ UNCHANGED << resolveCreatedPromise, firstCreatedAdapter >>
  /\ UNCHANGED notWaitVars

\* SignatureAdapter.waitForFirst(timeoutMs). The wait remembers how many
\* adapters existed when it was called.
WaitForFirst ==
  /\ Len(waits) < MaxWaits
  /\ IF firstCreatedAdapter # 0
     THEN /\ waits' = Append(waits, [state |-> "resolved",
                                     value |-> firstCreatedAdapter,
                                     createdBefore |-> createdAdapters,
                                     createdByTimeout |-> createdAdapters])
          /\ UNCHANGED << createdPromise, resolveCreatedPromise >>
     ELSE /\ createdPromise' =
               IF createdPromise.state = "null"
               THEN [state |-> "pending", value |-> 0]
               ELSE createdPromise
          /\ resolveCreatedPromise' =
               (resolveCreatedPromise \/ createdPromise.state = "null")
          /\ waits' = Append(waits, Race([state |-> "pending", value |-> 0,
                                          createdBefore |-> createdAdapters,
                                          createdByTimeout |-> createdAdapters],
                                         createdPromise'))
  /\ UNCHANGED << firstCreatedAdapter, createdAdapters >>
  /\ UNCHANGED notWaitVars

\* timeout(ms): the timer of wait w fires and rejects with a TimeoutError;
\* a race that is settled already stays as it is.
TimeoutElapses(w) ==
  /\ waits[w].state = "pending"
  /\ waits' = [waits EXCEPT ![w].state = "rejected",
                            ![w].createdByTimeout = createdAdapters]
  /\ UNCHANGED << createdPromise, resolveCreatedPromise, firstCreatedAdapter,
                  createdAdapters >>
  /\ UNCHANGED notWaitVars

NextWait ==
  \/ ConstructSignatureAdapter
  \/ WaitForFirst
  \/ \E w \in DOMAIN waits : TimeoutElapses(w)

\* C40: a wait is rejected only when no adapter was created before the
\* call and none by the time its timeout elapsed; a resolved wait holds an
\* adapter that was created.
C40_WaitFindsCreatedAdapter ==
  \A w \in DOMAIN waits :
    /\ waits[w].state = "rejected" =>
         (waits[w].createdBefore = 0 /\ waits[w].createdByTimeout = 0)
    /\ waits[w].state = "resolved" => waits[w].value \in 1..createdAdapters


InitAdapters ==
  /\ InitEdit /\ InitReq /\ InitStart /\ InitTerm /\ InitResolve
  /\ InitSelect /\ InitTrigger
  /\ InitSuggest /\ InitNotify /\ InitStderr /\ InitWait

Init == InitSrv /\ InitTok /\ InitDiag /\ InitAdapters

\* The session manager.
Spec == Init /\ [][NextSrv]_vars
\* The cancellation-token protocol with the suggestion cache behind it.
SpecTok == Init /\ [][NextTok]_vars
\* The suggestion cache.
SpecCache == Init /\ [][NextCache]_vars
\* cancelAndRefreshCancellationToken as a function of the registry.
InitCancel == InitSrv /\ InitRegistry /\ InitDiag /\ InitAdapters
SpecCancel == InitCancel /\ [][NextCancel]_vars

\* The diagnostics pipeline.
SpecDiag == Init /\ [][NextDiag]_vars
\* workspace/applyEdit.
SpecEdit == Init /\ [][NextEdit]_vars
\* Completion and symbol requests as their callers see them.
SpecReq == Init /\ [][NextReq]_vars
\* Starting a server.
SpecStart == Init /\ [][NextStart]_vars
\* The diagnostics pipeline up to and after the end of its Session.
SpecTerm == Init /\ [][NextTerm]_vars
\* Resolving documents to Sessions.
SpecResolve == Init /\ [][NextResolve]_vars
\* Selecting suggestions.
SpecSelect == Init /\ [][NextSelect]_vars
\* Computing the trigger character.
SpecTrigger == Init /\ [][NextTrigger]_vars
\* getSuggestions: gate, cache and narrowing.
SpecSuggest == Init /\ [][NextSuggest]_vars
\* Notifications of the server's show-message notifications and requests.
SpecNotify == Init /\ [][NextNotify]_vars
\* The stderr of the server process.
SpecStderr == Init /\ [][NextStderr]_vars
\* The waits for the first SignatureAdapter.
SpecWait == Init /\ [][NextWait]_vars

====
